---- MODULE Spec2Model ----
(***************************************************************************)
(* Video-asset generation service: the job dispatcher (api.py) and the     *)
(* pipeline orchestrator it runs (src/mastermind.py), with the stage       *)
(* adapters reduced to the outcomes their code can hand back.              *)
(*                                                                         *)
(* Python values are written as follows.  A dict is a TLA+ record or       *)
(* function over its keys, NoneD is None where a dict may stand, NoneS is  *)
(* None where a string may stand, NoTime is None where a time may stand.   *)
(* time.time() is the variable now, in seconds.                            *)
(***************************************************************************)
EXTENDS Integers, Sequences, FiniteSets, TLC

-----------------------------------------------------------------------------
(* Bounds of the model *)

\* number of job ids (uuid4 values) that submit can draw
MaxJobs == 2
\* number of one-hour advances of the clock
MaxClock == 1
\* largest number of segments a transcription holds
MaxSegs == 2
MaxMerge == 2
MaxKeys == 2
MaxChunks == 3
MaxChunkSegs == 2
MaxTime == 2
MaxTasks == 6
MaxWords == 4
SmallBatch == 3

(* Constants of the program *)

MIN_PROMPT_LENGTH == 10
MAX_PROMPT_LENGTH == 500
ExecutorMaxWorkers == 4
SecondsPerHour == 3600
DefaultMaxAgeHours == 24
NoTime == -1

NoneD == [none |-> TRUE]
NoneS == "None"
\* a dict whose insertion order matters is [items |-> <<[key, val], ...>>]
EmptyD == [items |-> << >>]

JobIds == 1..MaxJobs
\* lengths of the prompts a client posts: one too short, one valid, one too long
PromptLens == {MIN_PROMPT_LENGTH - 1, MIN_PROMPT_LENGTH, MAX_PROMPT_LENGTH + 1}
\* values of the max_age_hours query parameter
AgeHours == {0, 1, DefaultMaxAgeHours}

VARIABLES
    jobs,       \* api.jobs: job id -> job record
    issued,     \* the job ids uuid4 has handed out
    task,       \* the input prompt each job's background task was given
    pc,         \* where each job's run_generation / generate_video stands
    mm,         \* Mastermind.state of each job's orchestrator
    doc,        \* JsonBuilder.json_data of each job's orchestrator
    calls,      \* the provider calls each job's orchestrator has made, in order
    files,      \* the local asset directory: file -> content
    now,        \* time.time()
    alive,      \* the server process is running
    lastResp,   \* the response the last step sent, NoneD when it answered no request
    batch       \* the generate_batch call in progress, NoneD when there is none

vars == <<jobs, issued, task, pc, mm, doc, calls, files, now, alive, lastResp,
         batch>>

-----------------------------------------------------------------------------
(* Python helpers *)

\* dict.update / {**d, **u}
DictUpdate(d, u) ==
    [k \in (DOMAIN d) \cup (DOMAIN u) |-> IF k \in DOMAIN u THEN u[k] ELSE d[k]]

\* d.get(key, default)
DictGet(d, key, default) == IF key \in DOMAIN d THEN d[key] ELSE default

\* bool(v) of a value that is None or a dict
Truthy(v) == v # NoneD /\ DOMAIN v # {}

IsTerminal(job) == job.status \in {"completed", "failed"}

-----------------------------------------------------------------------------
(* api.py: the job store and the HTTP handlers *)

\* the record submit stores for a new job
NewJob(prompt, t) ==
    [status |-> "pending", input_prompt |-> prompt, start_time |-> t,
     result |-> NoneD, error |-> NoneS]

\* variant: the status is written, the result is not
JobCompletedNoResult(job, result, t) ==
    DictUpdate(job, [status |-> "completed", end_time |-> t])

\* the update run_generation applies when generate_video has returned
JobCompletedUpdate(job, result, t) ==
    DictUpdate(job, [status |-> "completed", result |-> result, end_time |-> t])

\* the update run_generation applies in its except branch
JobFailedUpdate(job, msg, t) ==
    DictUpdate(job, [status |-> "failed", error |-> msg, end_time |-> t])

\* the body get_status answers with for a stored job
StatusBody(id, job) ==
    [status |-> job.status, job_id |-> id,
     input_prompt |-> DictGet(job, "input_prompt", NoneD),
     result |-> DictGet(job, "result", NoneD),
     error |-> DictGet(job, "error", NoneS)]

\* get_status: 404 for an id that is not stored
StatusResponse(id) ==
    IF id \notin DOMAIN jobs
    THEN [code |-> 404, detail |-> "Job not found", body |-> NoneD]
    ELSE [code |-> 200, detail |-> NoneS, body |-> StatusBody(id, jobs[id])]

\* variant: the stored result is handed out whatever the status
ResultResponseAnyStatus(id) ==
    IF id \notin DOMAIN jobs
    THEN [code |-> 404, detail |-> "Job not found", body |-> NoneD]
    ELSE [code |-> 200, detail |-> NoneS, body |-> jobs[id].result]

\* get_result: 404, 425, 404 or the stored result
ResultResponse(id) ==
    IF id \notin DOMAIN jobs
    THEN [code |-> 404, detail |-> "Job not found", body |-> NoneD]
    ELSE IF jobs[id].status # "completed"
    THEN [code |-> 425, detail |-> "Job not yet completed", body |-> NoneD]
    ELSE IF ~Truthy(DictGet(jobs[id], "result", NoneD))
    THEN [code |-> 404, detail |-> "Result data not found", body |-> NoneD]
    ELSE [code |-> 200, detail |-> NoneS, body |-> jobs[id].result]

\* variant: the status is not looked at
ToDeleteAnyStatus(store, cutoff) ==
    {id \in DOMAIN store : DictGet(store[id], "end_time", 0) < cutoff}

\* cleanup_jobs: the ids it deletes for a cutoff
ToDelete(store, cutoff) ==
    {id \in DOMAIN store :
        /\ store[id].status \in {"completed", "failed"}
        /\ DictGet(store[id], "end_time", 0) < cutoff}

\* the value generate_video hands back: the state, with json_data when completed
ReturnValue(state, json_data) ==
    IF state.status = "completed"
    THEN DictUpdate(state, [json_data |-> json_data])
    ELSE state

\* variant: the id is not fresh
SubmitAnyId(len) ==
    /\ alive
    /\ len >= MIN_PROMPT_LENGTH /\ len <= MAX_PROMPT_LENGTH
    /\ \E id \in JobIds :
         /\ issued' = issued \cup {id}
         /\ jobs' = [k \in (DOMAIN jobs) \cup {id} |->
                        IF k = id THEN NewJob([len |-> len], now) ELSE jobs[k]]
         /\ task' = [task EXCEPT ![id] = [len |-> len]]
         /\ pc' = [pc EXCEPT ![id] = "queued"]
         /\ lastResp' = [op |-> "generate", arg |-> len, code |-> 202,
                         detail |-> NoneS,
                         body |-> [status |-> "pending", job_id |-> id,
                                   input_prompt |-> [len |-> len]]]
    /\ UNCHANGED <<mm, doc, calls, files, now, alive, batch>>

\* POST /generate
Submit(len) ==
    /\ alive
    /\ IF len < MIN_PROMPT_LENGTH \/ len > MAX_PROMPT_LENGTH
       THEN /\ lastResp' = [op |-> "generate", arg |-> len, code |-> 422,
                            detail |-> "validation error", body |-> NoneD]
            /\ UNCHANGED <<jobs, issued, task, pc>>
       ELSE \E id \in (DOMAIN pc) \ issued :
            /\ issued' = issued \cup {id}
            /\ jobs' = (id :> NewJob([len |-> len], now)) @@ jobs
            /\ task' = [task EXCEPT ![id] = [len |-> len]]
            /\ pc' = [pc EXCEPT ![id] = "queued"]
            /\ lastResp' = [op |-> "generate", arg |-> len, code |-> 202,
                            detail |-> NoneS,
                            body |-> [status |-> "pending", job_id |-> id,
                                      input_prompt |-> [len |-> len]]]
    /\ UNCHANGED <<mm, doc, calls, files, now, alive, batch>>

\* GET /status/{job_id}
GetStatus(id) ==
    /\ alive
    /\ lastResp' = DictUpdate([op |-> "status", arg |-> id], StatusResponse(id))
    /\ UNCHANGED <<jobs, issued, task, pc, mm, doc, calls, files, now, alive, batch>>

\* GET /result/{job_id}
GetResult(id) ==
    /\ alive
    /\ lastResp' = DictUpdate([op |-> "result", arg |-> id], ResultResponse(id))
    /\ UNCHANGED <<jobs, issued, task, pc, mm, doc, calls, files, now, alive, batch>>

\* DELETE /cleanup?max_age_hours=h
Cleanup(h) ==
    /\ alive
    /\ LET cutoff == now - (h * SecondsPerHour)
           gone == ToDelete(jobs, cutoff)
       IN /\ jobs' = [id \in (DOMAIN jobs) \ gone |-> jobs[id]]
          /\ lastResp' = [op |-> "cleanup", arg |-> h, code |-> 200,
                          detail |-> NoneS,
                          body |-> [cleaned |-> Cardinality(gone)]]
    /\ UNCHANGED <<issued, task, pc, mm, doc, calls, files, now, alive, batch>>

\* the wall clock advances
Tick ==
    /\ alive
    /\ now < MaxClock * SecondsPerHour
    /\ now' = now + SecondsPerHour
    /\ lastResp' = NoneD
    /\ UNCHANGED <<jobs, issued, task, pc, mm, doc, calls, files, alive, batch>>

-----------------------------------------------------------------------------
(* src/utils/storage.py: the asset directory.  A file is <<owner job, kind>>. *)

\* the directory under assets/ a kind of file is written to
DirOf(kind) ==
    CASE kind \in {"video", "video_error"} -> "root"
      [] kind \in {"fullscript", "transcription", "prompts"} -> "scripts"
      [] kind = "image_batch" -> "images"

\* StorageManager.save_json, when the write succeeds
SaveJson(fs, name, data) == (name :> data) @@ fs

\* a write that succeeds when ok holds and leaves the directory alone otherwise
SaveIf(ok, fs, name, data) == IF ok THEN SaveJson(fs, name, data) ELSE fs

-----------------------------------------------------------------------------
(* src/json_builder.py: the accumulating document *)

\* JsonBuilder._create_initial_json
InitialJson(t) ==
    [metadata |-> [title |-> "", description |-> "", topic |-> "",
                   created_at |-> t, updated_at |-> t],
     audio |-> [url |-> "", duration |-> 0],
     script |-> [full_text |-> "", word_count |-> 0],
     segments |-> << >>]

\* JsonBuilder.update_script, before its auto-save
UpdateScript(d, script_data, t) ==
    LET hasMeta(k) == "metadata" \in DOMAIN script_data
                      /\ k \in DOMAIN script_data.metadata
        text == DictGet(script_data, "full_script", "")
        words == IF hasMeta("length_words")
                 THEN script_data.metadata.length_words
                 ELSE IF text = "" THEN 0 ELSE 1
        meta == IF hasMeta("cleaned_topic")
                THEN [d.metadata EXCEPT !.topic = script_data.metadata.cleaned_topic,
                                        !.title = script_data.metadata.cleaned_topic]
                ELSE d.metadata
    IN [d EXCEPT !.script = [full_text |-> text, word_count |-> words],
                 !.metadata = [meta EXCEPT !.updated_at = t]]

\* JsonBuilder.update_audio, before its auto-save
UpdateAudio(d, audio_info, t) ==
    LET a1 == DictUpdate(d.audio, [url |-> DictGet(audio_info, "url", "")])
        a2 == IF "all_urls" \in DOMAIN audio_info
              THEN DictUpdate(a1, [all_urls |-> audio_info.all_urls]) ELSE a1
        a3 == IF "chunks" \in DOMAIN audio_info
              THEN DictUpdate(a2, [num_chunks |-> audio_info.chunks]) ELSE a2
        a4 == IF "word_count" \in DOMAIN audio_info
              THEN DictUpdate(a3, [source_word_count |-> audio_info.word_count])
              ELSE a3
    IN [d EXCEPT !.audio = a4, !.metadata.updated_at = t]

\* the texts an utterance can carry: two that differ in case and white space
\* only, and one of more than a hundred characters
LongText ==
    "the narrator goes on and on about the subject until the sentence has grown well past the first hundred characters"
Texts == {"Intro ", "intro", LongText}

\* segment text as the correlator normalises it: strip().lower(); "intro" and
\* LongText are in lower case and carry no white space at their ends
Normalize(text) ==
    CASE text = "Intro " -> "intro"
      [] OTHER -> text

\* text[:100]
First100(text) ==
    CASE text = LongText ->
           "the narrator goes on and on about the subject until the sentence has grown well past the first hundr"
      [] OTHER -> text

\* hashlib.md5(clean_text).hexdigest(), taken to be free of collisions
Digest(text) == Normalize(text)

\* the key f"{id}-hash-{content_hash}" of an image task
HashKey(id, text) == <<id, Digest(text)>>

\* str(i), a key that is a bare segment index
IdKey(i) == <<i>>

\* variant: the text is compared as it is, not normalised
KeyHasRawText(key, text) == Len(key) = 2 /\ key[2] = text

\* f"hash-{content_hash}" in key
KeyHasHash(key, text) == Len(key) = 2 /\ key[2] = Digest(text)

\* keys and lookup of a dict that keeps insertion order
DictKeys(od) == {od.items[n].key : n \in 1..Len(od.items)}
DictVal(od, key) == od.items[CHOOSE n \in 1..Len(od.items) : od.items[n].key = key].val

\* bool(v) of a value that is None or a dict that keeps insertion order
TruthyOD(v) == v # NoneD /\ Len(v.items) > 0

\* next((key for key in image_data.keys() if f"hash-{h}" in key), None)
FirstHashKey(od, text) ==
    LET hits == {n \in 1..Len(od.items) : KeyHasHash(od.items[n].key, text)}
    IN IF hits = {} THEN << >>
       ELSE od.items[CHOOSE n \in hits : \A m \in hits : n <= m].key

\* variant: when neither the index nor the hash matches, the entry at the
\* position of the segment is taken
SegmentImageDataByPosition(image_data, i, text) ==
    IF IdKey(i) \in DictKeys(image_data) /\ Truthy(DictVal(image_data, IdKey(i)))
    THEN DictVal(image_data, IdKey(i))
    ELSE LET k == FirstHashKey(image_data, text)
         IN IF k # << >> /\ Truthy(DictVal(image_data, k))
            THEN DictVal(image_data, k)
            ELSE IF k = << >> /\ Len(image_data.items) > i
            THEN image_data.items[i + 1].val
            ELSE NoneD

\* the image result update_segments picks for segment i (0-based), or NoneD
SegmentImageData(image_data, i, text) ==
    IF IdKey(i) \in DictKeys(image_data) /\ Truthy(DictVal(image_data, IdKey(i)))
    THEN DictVal(image_data, IdKey(i))
    ELSE LET k == FirstHashKey(image_data, text)
         IN IF k # << >> /\ Truthy(DictVal(image_data, k))
            THEN DictVal(image_data, k)
            ELSE NoneD

\* the segment update_segments builds for transcription segment i (0-based)
NewSegment(segment, i, prompt_data, image_data) ==
    LET base == [id |-> i, text |-> segment.text,
                 start_time |-> segment.start_time, end_time |-> segment.end_time,
                 duration |-> segment.end_time - segment.start_time,
                 words |-> segment.words]
        withPrompt ==
            IF Truthy(prompt_data) /\ i < Len(prompt_data.segments)
            THEN DictUpdate(base,
                     [image_prompt |-> prompt_data.segments[i + 1].image_prompt])
            ELSE base
        picked == IF TruthyOD(image_data)
                  THEN SegmentImageData(image_data, i, segment.text)
                  ELSE NoneD
    IN IF picked # NoneD
       THEN DictUpdate(withPrompt,
                [image_url |-> DictGet(picked, "image_url", NoneS),
                 depth_map_url |-> DictGet(picked, "depth_map_url", NoneS)])
       ELSE withPrompt

\* variant: the new segments are appended to the ones the document holds
UpdateSegmentsAppend(d, transcription, prompt_data, image_data, t) ==
    [d EXCEPT !.audio = DictUpdate(d.audio, [duration |-> transcription.duration]),
              !.segments = @ \o [n \in 1..Len(transcription.segments) |->
                                    NewSegment(transcription.segments[n], n - 1,
                                               prompt_data, image_data)],
              !.metadata.updated_at = t]

\* JsonBuilder.update_segments, before its auto-save
UpdateSegments(d, transcription, prompt_data, image_data, t) ==
    [d EXCEPT !.audio = DictUpdate(d.audio, [duration |-> transcription.duration]),
              !.segments = [n \in 1..Len(transcription.segments) |->
                               NewSegment(transcription.segments[n], n - 1,
                                          prompt_data, image_data)],
              !.metadata.updated_at = t]

\* the document JsonBuilder.save_minimal writes
MinimalData(d, error_info, t) ==
    [metadata |-> [title |-> "Error in video generation", description |-> "",
                   topic |-> d.metadata.topic, created_at |-> t, updated_at |-> t,
                   error |-> TRUE],
     error_info |-> error_info,
     segments |-> << >>]

-----------------------------------------------------------------------------
(* src/mastermind.py: the orchestrator.  The providers (LLM, speech,        *)
(* transcription, image) and the disk are the environment: each stage      *)
(* action draws the outcome its adapter hands back.                        *)

\* Mastermind.__init__: the state dict
InitialState(t) ==
    [input_prompt |-> NoneD, parsed_topic |-> NoneS,
     parsed_style_directive |-> NoneS, script_data |-> NoneD,
     audio_info |-> NoneD, transcription |-> NoneD, prompt_data |-> NoneD,
     image_data |-> NoneD, json_path |-> NoneS, video_path |-> NoneS,
     status |-> "initialized", start_time |-> t, end_time |-> NoTime]

\* variant: the end time is not written
HandlerNoEndTime(state, msg, t) ==
    DictUpdate(state, [status |-> "error", error |-> msg])

\* generate_video's except branch: the state it returns
Handler(state, msg, t) ==
    DictUpdate(state, [status |-> "error", error |-> msg, end_time |-> t])

\* Transcriber.transcribe_audio: the segment it makes of one utterance
Utterance(text, start, end) ==
    [text |-> text, start_time |-> start, end_time |-> end, confidence |-> 1,
     words |-> 1]

\* Transcriber.transcribe_audio: what it returns for the utterances of a chunk
ChunkTranscription(segments) ==
    [segments |-> segments,
     duration |-> IF Len(segments) = 0 THEN 0
                  ELSE segments[Len(segments)].end_time,
     word_count |-> Len(segments)]

\* a chunk whose download_audio or transcribe_audio raised
ChunkRaised == [raised |-> TRUE]

\* the sequences of at most n elements of S
SeqsUpTo(S, n) == UNION {[1..m -> S] : m \in 0..n}

\* the transcription of a chunk whose utterances carry texts and follow one
\* another without a pause
SpokenChunk(texts) ==
    ChunkTranscription([j \in 1..Len(texts) |-> Utterance(texts[j], j - 1, j)])

\* what process_audio can get for one chunk of at most n utterances
ChunkOutcomes(n) == {ChunkRaised} \cup {SpokenChunk(t) : t \in SeqsUpTo(Texts, n)}

\* what the script stage can do: a script, a script of white space only, the
\* error dict of a failed generation, or an exception
ScriptOutcomes == {"ok", "blank", "failed", "raise"}

\* ScriptWriter.generate_full_script: what it returns; the text of a blank
\* script is "" here, its strip()
ScriptData(outcome) ==
    CASE outcome = "ok" ->
           [full_script |-> "script",
            metadata |-> [cleaned_topic |-> "topic", length_words |-> 1]]
      [] outcome = "blank" ->
           [full_script |-> "",
            metadata |-> [cleaned_topic |-> "topic", length_words |-> 0]]
      [] OTHER -> [error |-> "Script generation failed", topic_info |-> "topic"]

\* variant: every script_data is let through
AnyScript(script_data) == TRUE

\* generate_audio_from_script's test that lets a script through
HasScript(script_data) == "full_script" \in DOMAIN script_data

\* TTSGenerator.generate_audio_from_script: what it returns when it returns
AudioInfo(ok) ==
    IF ok
    THEN [url |-> "audio", all_urls |-> <<"audio">>, word_count |-> 1, chunks |-> 1]
    ELSE [url |-> NoneS, all_urls |-> << >>, word_count |-> 1, chunks |-> 0,
          error |-> "Failed to generate audio chunk"]

\* sum(s.get("words", 0) for s in segments)
RECURSIVE SumWords(_)
SumWords(segments) ==
    IF Len(segments) = 0 THEN 0
    ELSE DictGet(Head(segments), "words", 0) + SumWords(Tail(segments))

\* variant: the segments of a chunk are appended as they are
RECURSIVE CombineNoOffset(_, _, _)
CombineNoOffset(results, k, acc) ==
    IF k > Len(results) THEN acc
    ELSE LET r == results[k]
         IN IF "raised" \in DOMAIN r \/ Len(r.segments) = 0
            THEN CombineNoOffset(results, k + 1, acc)
            ELSE CombineNoOffset(results, k + 1,
                     [segments |-> acc.segments \o r.segments,
                      duration |-> acc.duration + DictGet(r, "duration", 0),
                      word_count |-> acc.word_count + SumWords(r.segments)])

\* process_audio's loop from chunk k on: a chunk that raised or holds no
\* segment is skipped, the segments of another one are shifted by the
\* cumulative duration and appended
RECURSIVE CombineChunks(_, _, _)
CombineChunks(results, k, acc) ==
    IF k > Len(results) THEN acc
    ELSE LET r == results[k]
         IN IF "raised" \in DOMAIN r \/ Len(r.segments) = 0
            THEN CombineChunks(results, k + 1, acc)
            ELSE CombineChunks(results, k + 1,
                     [segments |-> acc.segments \o
                          [n \in 1..Len(r.segments) |->
                              [r.segments[n] EXCEPT
                                   !.start_time = @ + acc.duration,
                                   !.end_time = @ + acc.duration]],
                      duration |-> acc.duration + DictGet(r, "duration", 0),
                      word_count |-> acc.word_count + SumWords(r.segments)])

\* TTSGenerator.generate_audio: what it returns for a script of n chunks
ChunkedAudioInfo(n) ==
    [url |-> "audio1", all_urls |-> [k \in 1..n |-> "audio" \o ToString(k)],
     word_count |-> n, chunks |-> n]

\* Transcriber.process_audio: the combined transcription of the chunks
ProcessAudio(results) ==
    CombineChunks(results, 1, [segments |-> << >>, duration |-> 0, word_count |-> 0])

\* process_audio: the URLs it goes through
AudioUrls(audio_info) ==
    IF DictGet(audio_info, "all_urls", << >>) # << >>
    THEN audio_info.all_urls
    ELSE <<audio_info.url>>

\* the calls process_audio makes for its chunks: one that raised is noted
ChunkCalls(results) ==
    [k \in 1..Len(results) |->
        IF "raised" \in DOMAIN results[k] THEN "transcribe_raised" ELSE "transcribe"]

\* variant: the keys are looked for, their values are not
NoAudioKey(audio_info) ==
    "all_urls" \notin DOMAIN audio_info /\ "url" \notin DOMAIN audio_info

\* the "not x" test process_audio applies to all_urls and url
NoAudio(audio_info) ==
    /\ DictGet(audio_info, "all_urls", << >>) = << >>
    /\ DictGet(audio_info, "url", NoneS) \in {NoneS, ""}

\* f"Visual representation of: {text[:100]}..."
VisualPrompt(text) == "Visual representation of: " \o First100(text) \o "..."

\* what the prompt stage can do: the language model answers, every call to it
\* fails, or generate_prompts raises
PromptOutcomes == {"ok", "llm_failed", "raise"}

\* DeepSeekPromptGenerator.generate_batch: the prompt of segment i, the
\* model's or, when every API failed, the one made of the segment's text
BatchPrompt(segment, llm) ==
    IF llm THEN "prompt" ELSE VisualPrompt(segment.text)

\* DeepSeekPromptGenerator.generate_prompts: what it returns
PromptData(transcription, llm) ==
    [segments |-> [i \in 1..Len(transcription.segments) |->
                      DictUpdate(transcription.segments[i],
                          [image_prompt |->
                              BatchPrompt(transcription.segments[i], llm)])],
     count |-> Len(transcription.segments), batch_generated |-> TRUE]

\* variant: the fallback prompt takes the whole text of the segment
FallbackWholeText(transcription, msg) ==
    [segments |-> [i \in 1..Len(transcription.segments) |->
                      [text |-> transcription.segments[i].text,
                       start_time |-> transcription.segments[i].start_time,
                       end_time |-> transcription.segments[i].end_time,
                       image_prompt |->
                           "Visual representation of: " \o
                           transcription.segments[i].text \o "..."]],
     count |-> Len(transcription.segments), batch_generated |-> FALSE,
     error |-> msg]

\* generate_video: the prompt data it builds when the prompt stage raises
FallbackPromptData(transcription, msg) ==
    [segments |-> [i \in 1..Len(transcription.segments) |->
                      [text |-> transcription.segments[i].text,
                       start_time |-> transcription.segments[i].start_time,
                       end_time |-> transcription.segments[i].end_time,
                       image_prompt |->
                           VisualPrompt(transcription.segments[i].text)]],
     count |-> Len(transcription.segments), batch_generated |-> FALSE,
     error |-> msg]

\* generate_video: the image tasks, one per prompt segment that has a prompt;
\* the key takes the segment's id, or its 1-based position when it has none
ImagePrompts(prompt_data) ==
    LET pairs == [i \in 1..Len(prompt_data.segments) |->
                     [pos |-> i, segment |-> prompt_data.segments[i]]]
        kept == SelectSeq(pairs, LAMBDA e : "image_prompt" \in DOMAIN e.segment)
    IN [k \in 1..Len(kept) |->
           [key |-> HashKey(DictGet(kept[k].segment, "id", (kept[k].pos - 1) + 1),
                            kept[k].segment.text),
            val |-> kept[k].segment.image_prompt]]

\* the URL of the image stored for a task, whose file name holds the task's
\* key, and the URL of its depth map
ImageUrl(key) == "image_" \o ToString(key[1]) \o "-hash-" \o key[2]
DepthUrl(key) == "depth_" \o ToString(key[1]) \o "-hash-" \o key[2]

\* what ImageGenerator.generate_image can hand back for the task of a key
ImageResults(key) ==
    {[image_url |-> ImageUrl(key), depth_map_url |-> DepthUrl(key)],
     [image_url |-> ImageUrl(key), depth_map_url |-> NoneS],
     [image_url |-> NoneS, depth_map_url |-> NoneS]}

\* variant: the placeholders do not carry the reason
PlaceholdersNoError(prompts, msg, connection) ==
    [items |->
        [i \in 1..Len(prompts) |->
            [key |-> prompts[i].key,
             val |-> [image_url |-> NoneS, depth_map_url |-> NoneS]]]]

\* generate_video: the placeholder results of a batch call that raised
Placeholders(prompts, msg, connection) ==
    [items |->
        [i \in 1..Len(prompts) |->
            [key |-> prompts[i].key,
             val |-> IF connection
                     THEN [image_url |-> NoneS, depth_map_url |-> NoneS,
                           error |-> msg, placeholder |-> TRUE]
                     ELSE [image_url |-> NoneS, depth_map_url |-> NoneS,
                           error |-> msg]]]]

\* the stages of generate_video, as values of pc
Stages == {"parse", "script", "tts", "transcribe", "prompts", "images",
           "assemble", "cleanup"}

\* the file a json_path names
PathFile(id, path) == <<id, IF path = "video_error.json" THEN "video_error" ELSE "video">>

\* generate_video's terminal cleanup: the files it leaves in the asset directory
AfterCleanup(fs, preserved) ==
    [f \in {g \in DOMAIN fs :
               /\ DirOf(g[2]) \notin {"audio", "images", "scripts"}
               /\ ~(DirOf(g[2]) = "root" /\ g # preserved)} |-> fs[f]]

\* what the disk does with a stage's two writes of the document: the auto-save
\* inside the update method (its failure is swallowed) and the save() after it
DiskOutcomes == {"ok", "auto_failed", "save_failed", "both_failed"}
Written(disk) == disk # "both_failed"
SaveRaises(disk) == disk \in {"save_failed", "both_failed"}

\* variant: the handler records the error and the run stays where it is
RaiseAndStay(id, state, msg) ==
    /\ mm' = [mm EXCEPT ![id] = Handler(state, msg, now)]
    /\ pc' = pc

\* the step every stage ends with when an exception reaches the top-level handler
Raise(id, state, msg) ==
    /\ mm' = [mm EXCEPT ![id] = Handler(state, msg, now)]
    /\ pc' = [pc EXCEPT ![id] = "returned"]

\* the step a stage ends with when it hands over to the next stage
Proceed(id, state, next) ==
    /\ mm' = [mm EXCEPT ![id] = state]
    /\ pc' = [pc EXCEPT ![id] = next]

\* what Mastermind() does when run_generation constructs it: it returns, it
\* leaves through sys.exit(1) on a configuration that does not validate, or it
\* raises an Exception (in this revision the ImageGenerator(...) call of the
\* constructor does, its keyword arguments being unknown to ImageGenerator)
CtorOutcomes == {"ok", "config_error", "init_error"}

\* run_generation up to the hand-over to the thread pool
RunStart(id, ctor) ==
    /\ alive
    /\ pc[id] = "queued"
    /\ CASE ctor = "ok" ->
              /\ mm' = [mm EXCEPT ![id] = InitialState(now)]
              /\ doc' = [doc EXCEPT ![id] = InitialJson(now)]
              /\ pc' = [pc EXCEPT ![id] = "submitted"]
              /\ UNCHANGED <<jobs, alive>>
         [] ctor = "config_error" ->
              \* sys.exit(1): SystemExit is no Exception, the except branch is skipped
              /\ alive' = FALSE
              /\ pc' = [pc EXCEPT ![id] = "exited"]
              /\ UNCHANGED <<jobs, mm, doc>>
         [] ctor = "init_error" ->
              /\ IF id \in DOMAIN jobs
                 THEN /\ jobs' = [jobs EXCEPT ![id] =
                                     JobFailedUpdate(jobs[id], "Generation failed", now)]
                      /\ pc' = [pc EXCEPT ![id] = "done"]
                 ELSE \* jobs[job_id] raises KeyError out of the except branch
                      /\ pc' = [pc EXCEPT ![id] = "keyerror"]
                      /\ UNCHANGED jobs
              /\ UNCHANGED <<mm, doc, alive>>
    /\ lastResp' = NoneD
    /\ UNCHANGED <<issued, task, calls, files, now, batch>>

\* the thread pool starts generate_video when one of its workers is free
ExecutorStart(id) ==
    /\ alive
    /\ pc[id] = "submitted"
    /\ Cardinality({k \in DOMAIN pc : pc[k] \in Stages}) < ExecutorMaxWorkers
    /\ pc' = [pc EXCEPT ![id] = "parse"]
    /\ lastResp' = NoneD
    /\ UNCHANGED <<jobs, issued, task, mm, doc, calls, files, now, alive, batch>>

\* generate_video, step 0: the input prompt is parsed; topic says whether a
\* topic was found, the style directive is taken to be absent
ParseInput(id, topic) ==
    /\ alive
    /\ pc[id] = "parse"
    /\ LET s1 == [mm[id] EXCEPT !.input_prompt = task[id]]
       IN IF ~topic
          THEN Raise(id, s1, "Failed to extract a topic from the input prompt.")
          ELSE Proceed(id, [s1 EXCEPT !.parsed_topic = "topic"], "script")
    /\ lastResp' = NoneD
    /\ UNCHANGED <<jobs, issued, task, doc, calls, files, now, alive, batch>>

\* generate_video, step 1: the script is generated and stored
ScriptStage(id, outcome, disk) ==
    /\ alive
    /\ pc[id] = "script"
    /\ IF outcome = "raise"
       THEN /\ Raise(id, mm[id], "script stage raised")
            /\ UNCHANGED <<doc, calls, files>>
       ELSE LET script_data == ScriptData(outcome)
                s1 == [mm[id] EXCEPT !.script_data = script_data]
                d1 == UpdateScript(doc[id], script_data, now)
                f1 == SaveIf(HasScript(script_data), files, <<id, "fullscript">>,
                            script_data)
            IN /\ calls' = [calls EXCEPT ![id] = Append(@, "script")]
               /\ doc' = [doc EXCEPT ![id] = d1]
               /\ files' = SaveIf(Written(disk), f1, <<id, "video">>, d1)
               /\ IF SaveRaises(disk)
                  THEN Raise(id, s1, "save failed")
                  ELSE Proceed(id, s1, "tts")
    /\ lastResp' = NoneD
    /\ UNCHANGED <<jobs, issued, task, now, alive, batch>>

\* generate_video, step 2: speech synthesis
TtsStage(id, ok, disk) ==
    /\ alive
    /\ pc[id] = "tts"
    /\ LET s1 == [mm[id] EXCEPT !.status = "generating_tts"]
       IN IF ~HasScript(s1.script_data)
          THEN /\ Raise(id, s1, "script_data must contain a 'full_script' string.")
               /\ UNCHANGED <<doc, calls, files>>
          ELSE LET empty == DictGet(s1.script_data, "full_script", "") = ""
                   audio_info ==
                       IF empty
                       THEN [url |-> NoneS, all_urls |-> << >>, word_count |-> 0,
                             chunks |-> 0, error |-> "Empty script text"]
                       ELSE AudioInfo(ok)
                   s2 == [s1 EXCEPT !.audio_info = audio_info]
                   d1 == UpdateAudio(doc[id], audio_info, now)
               IN /\ calls' = [calls EXCEPT ![id] =
                                  IF empty THEN @ ELSE Append(@, "tts")]
                  /\ doc' = [doc EXCEPT ![id] = d1]
                  /\ files' = SaveIf(Written(disk), files, <<id, "video">>, d1)
                  /\ IF SaveRaises(disk)
                     THEN Raise(id, s2, "save failed")
                     ELSE Proceed(id, s2, "transcribe")
    /\ lastResp' = NoneD
    /\ UNCHANGED <<jobs, issued, task, now, alive, batch>>

\* generate_video, step 3: transcription; each chunk of the audio gets an
\* outcome out of chunks
TranscribeStage(id, chunks, stored, disk) ==
    /\ alive
    /\ pc[id] = "transcribe"
    /\ LET s1 == [mm[id] EXCEPT !.status = "transcribing_audio"]
       IN IF NoAudio(s1.audio_info)
          THEN /\ Raise(id, s1, "audio_info must contain 'all_urls' or a primary 'url'.")
               /\ UNCHANGED <<doc, calls, files>>
          ELSE \E results \in [1..Len(AudioUrls(s1.audio_info)) -> chunks] :
               IF ~stored
          THEN \* process_audio's own save_json raised
               /\ calls' = [calls EXCEPT ![id] = @ \o ChunkCalls(results)]
               /\ Raise(id, s1, "save failed")
               /\ UNCHANGED <<doc, files>>
          ELSE LET transcription == ProcessAudio(results)
                   s2 == [s1 EXCEPT !.transcription = transcription]
                   d1 == UpdateSegments(doc[id], transcription, NoneD, NoneD, now)
                   f1 == SaveJson(files, <<id, "transcription">>, transcription)
               IN /\ calls' = [calls EXCEPT ![id] = @ \o ChunkCalls(results)]
                  /\ doc' = [doc EXCEPT ![id] = d1]
                  /\ files' = SaveIf(Written(disk), f1, <<id, "video">>, d1)
                  /\ IF SaveRaises(disk)
                     THEN Raise(id, s2, "save failed")
                     ELSE Proceed(id, s2, "prompts")
    /\ lastResp' = NoneD
    /\ UNCHANGED <<jobs, issued, task, now, alive, batch>>

\* generate_video, step 4: illustration prompts, with the fallback of its
\* except; a stage whose every call to the language model failed is noted
PromptStage(id, outcome, disk) ==
    /\ alive
    /\ pc[id] = "prompts"
    /\ LET s1 == [mm[id] EXCEPT !.status = "generating_prompts"]
           transcription == s1.transcription
       IN IF ~Truthy(transcription) \/ "segments" \notin DOMAIN transcription
          THEN /\ Raise(id, s1, "Invalid transcription data for prompt generation")
               /\ UNCHANGED <<doc, calls, files>>
          ELSE /\ calls' = [calls EXCEPT ![id] =
                               Append(@, IF outcome = "llm_failed"
                                         THEN "prompt_failed" ELSE "prompt")]
               /\ IF outcome # "raise"
                  THEN LET prompt_data == PromptData(transcription, outcome = "ok")
                           d1 == UpdateSegments(doc[id], transcription, prompt_data,
                                                NoneD, now)
                           f1 == SaveJson(files, <<id, "prompts">>, prompt_data)
                       IN /\ doc' = [doc EXCEPT ![id] = d1]
                          /\ files' = SaveIf(Written(disk), f1, <<id, "video">>, d1)
                          /\ Proceed(id,
                                 [s1 EXCEPT !.prompt_data =
                                     IF SaveRaises(disk)
                                     THEN FallbackPromptData(transcription, "save failed")
                                     ELSE prompt_data],
                                 "images")
                  ELSE /\ Proceed(id,
                              [s1 EXCEPT !.prompt_data =
                                  FallbackPromptData(transcription,
                                                     "prompt generation failed")],
                              "images")
                       /\ UNCHANGED <<doc, files>>
    /\ lastResp' = NoneD
    /\ UNCHANGED <<jobs, issued, task, now, alive, batch>>

\* the orders in which the tasks of a batch can complete
Perms(n) == {p \in [1..n -> 1..n] : \A a, b \in 1..n : p[a] = p[b] => a = b}

\* what the image stage's batch call does
BatchOutcomes == {"ok", "connection_error", "error"}

\* generate_video, step 5: the image batch
ImageStage(id, outcome) ==
    /\ alive
    /\ pc[id] = "images"
    /\ LET s1 == [mm[id] EXCEPT !.status = "generating_images"]
           prompts == ImagePrompts(s1.prompt_data)
           n == Len(prompts)
       IN IF n = 0
          THEN /\ Proceed(id, [s1 EXCEPT !.image_data = EmptyD], "assemble")
               /\ UNCHANGED <<calls, files>>
          ELSE /\ calls' = [calls EXCEPT ![id] = Append(@, "image")]
               /\ IF outcome = "ok"
                  THEN \E order \in Perms(n),
                          results \in {r \in [1..n -> UNION {ImageResults(prompts[k].key) :
                                                                k \in 1..n}] :
                                          \A k \in 1..n :
                                              r[k] \in ImageResults(prompts[k].key)} :
                       LET image_data ==
                               [items |->
                                   [k \in 1..n |-> [key |-> prompts[order[k]].key,
                                                    val |-> results[order[k]]]]]
                       IN /\ Proceed(id, [s1 EXCEPT !.image_data = image_data],
                                     "assemble")
                          /\ files' = SaveJson(files, <<id, "image_batch">>,
                                               image_data)
                  ELSE LET msg == "image generation failed"
                           image_data == Placeholders(prompts, msg,
                                             outcome = "connection_error")
                       IN /\ Proceed(id,
                                 DictUpdate([s1 EXCEPT !.image_data = image_data],
                                            [image_generation_error |-> msg]),
                                 "assemble")
                          /\ UNCHANGED files
    /\ lastResp' = NoneD
    /\ UNCHANGED <<jobs, issued, task, doc, now, alive, batch>>

\* variant: the list is not cut
TakeAll(lst, n) == lst

\* lst[:n]
Take(lst, n) == SubSeq(lst, 1, n)
Min(a, b) == IF a <= b THEN a ELSE b
Max(a, b) == IF a >= b THEN a ELSE b

\* generate_video: final assembly, with save_minimal when it fails
AssembleStage(id, disk, minimal) ==
    /\ alive
    /\ pc[id] = "assemble"
    /\ LET s0 == mm[id]
           min_len == Min(Len(s0.prompt_data.segments), Len(s0.transcription.segments))
           s1 == [s0 EXCEPT !.prompt_data.segments = Take(@, min_len),
                            !.transcription.segments = Take(@, min_len)]
           d1 == UpdateSegments(doc[id], s1.transcription, s1.prompt_data,
                                s1.image_data, now)
           f1 == SaveIf(Written(disk), files, <<id, "video">>, d1)
       IN /\ doc' = [doc EXCEPT ![id] = d1]
          /\ IF ~SaveRaises(disk)
             THEN /\ files' = f1
                  /\ Proceed(id, [s1 EXCEPT !.json_path = "video.json"], "cleanup")
             ELSE IF minimal
             THEN /\ files' = SaveJson(f1, <<id, "video_error">>,
                                 MinimalData(d1, [error |-> "save failed"], now))
                  /\ Proceed(id, [s1 EXCEPT !.json_path = "video_error.json"],
                             "cleanup")
             ELSE /\ files' = f1
                  /\ Raise(id, s1, "save failed")
    /\ lastResp' = NoneD
    /\ UNCHANGED <<jobs, issued, task, calls, now, alive, batch>>

\* generate_video: the terminal cleanup and the completed state
CleanupStage(id) ==
    /\ alive
    /\ pc[id] = "cleanup"
    /\ files' = IF mm[id].json_path \notin {NoneS, ""}
                THEN AfterCleanup(files, PathFile(id, mm[id].json_path))
                ELSE files
    /\ Proceed(id, [mm[id] EXCEPT !.status = "completed", !.end_time = now],
               "returned")
    /\ lastResp' = NoneD
    /\ UNCHANGED <<jobs, issued, task, doc, calls, now, alive, batch>>

\* variant: the update is applied again after the run has finished
RunFinishRepeated(id) ==
    /\ alive
    /\ pc[id] \in {"returned", "done"} /\ mm[id] # NoneD
    /\ id \in DOMAIN jobs
    /\ jobs' = [jobs EXCEPT ![id] =
                    DictUpdate(jobs[id],
                               [status |-> "completed", result |-> mm[id],
                                end_time |-> now])]
    /\ pc' = [pc EXCEPT ![id] = "done"]
    /\ lastResp' = NoneD
    /\ UNCHANGED <<issued, task, mm, doc, calls, files, now, alive, batch>>

\* run_generation after generate_video has returned: the job record is updated
RunFinish(id) ==
    /\ alive
    /\ pc[id] = "returned"
    /\ IF id \in DOMAIN jobs
       THEN /\ jobs' = [jobs EXCEPT ![id] =
                           JobCompletedUpdate(jobs[id],
                                              ReturnValue(mm[id], doc[id]), now)]
            /\ pc' = [pc EXCEPT ![id] = "done"]
       ELSE \* jobs[job_id] raises KeyError, in the try and again in the except
            /\ pc' = [pc EXCEPT ![id] = "keyerror"]
            /\ UNCHANGED jobs
    /\ lastResp' = NoneD
    /\ UNCHANGED <<issued, task, mm, doc, calls, files, now, alive, batch>>

-----------------------------------------------------------------------------
(* The service *)

Init ==
    /\ jobs = << >>
    /\ issued = {}
    /\ task = [id \in JobIds |-> NoneD]
    /\ pc = [id \in JobIds |-> "none"]
    /\ mm = [id \in JobIds |-> NoneD]
    /\ doc = [id \in JobIds |-> NoneD]
    /\ calls = [id \in JobIds |-> << >>]
    /\ files = << >>
    /\ now = 0
    /\ alive = TRUE
    /\ lastResp = NoneD
    /\ batch = NoneD

\* the requests a client can send, and the clock
Dispatcher ==
    \/ \E len \in PromptLens : Submit(len)
    \/ \E id \in JobIds : GetStatus(id)
    \/ \E id \in JobIds : GetResult(id)
    \/ \E h \in AgeHours : Cleanup(h)
    \/ Tick

\* run_generation and generate_video for the jobs in ids, in an environment
\* whose disk behaves as one of disks, whose audio chunks get an outcome out
\* of chunks and whose prompt stage does one of prompts
Runs(ids, disks, chunks, prompts) ==
    \/ \E id \in ids, ctor \in CtorOutcomes : RunStart(id, ctor)
    \/ \E id \in ids : ExecutorStart(id)
    \/ \E id \in ids, topic \in BOOLEAN : ParseInput(id, topic)
    \/ \E id \in ids, outcome \in ScriptOutcomes, disk \in disks :
          ScriptStage(id, outcome, disk)
    \/ \E id \in ids, ok \in BOOLEAN, disk \in disks : TtsStage(id, ok, disk)
    \/ \E id \in ids, stored \in BOOLEAN, disk \in disks :
          TranscribeStage(id, chunks, stored, disk)
    \/ \E id \in ids, outcome \in prompts, disk \in disks :
          PromptStage(id, outcome, disk)
    \/ \E id \in ids, outcome \in BatchOutcomes : ImageStage(id, outcome)
    \/ \E id \in ids, disk \in disks, minimal \in BOOLEAN :
          AssembleStage(id, disk, minimal)
    \/ \E id \in ids : CleanupStage(id)
    \/ \E id \in ids : RunFinish(id)

\* The service: MaxJobs jobs run side by side while clients poll and clean up.
\* Its disk takes every write, its audio holds no utterance, so that its
\* transcriptions are empty, and its language model answers when it is called.
Next == Dispatcher \/ Runs(JobIds, {"ok"}, {SpokenChunk(<< >>)}, {"ok", "raise"})

Spec == Init /\ [][Next]_vars

\* One run: job 1 has been accepted and its run goes through every outcome of
\* the providers and of the disk, with an audio chunk of up to MaxSegs utterances.
RunInit ==
    /\ jobs = (1 :> NewJob([len |-> MIN_PROMPT_LENGTH], 0))
    /\ issued = {1}
    /\ task = [id \in JobIds |-> IF id = 1 THEN [len |-> MIN_PROMPT_LENGTH] ELSE NoneD]
    /\ pc = [id \in JobIds |-> IF id = 1 THEN "queued" ELSE "none"]
    /\ mm = [id \in JobIds |-> NoneD]
    /\ doc = [id \in JobIds |-> NoneD]
    /\ calls = [id \in JobIds |-> << >>]
    /\ files = << >>
    /\ now = 0
    /\ alive = TRUE
    /\ lastResp = NoneD
    /\ batch = NoneD

RunNext == Tick \/ Runs({1}, DiskOutcomes, ChunkOutcomes(MaxSegs), PromptOutcomes)

RunSpec == RunInit /\ [][RunNext]_vars

-----------------------------------------------------------------------------
(* Properties of the dispatcher, checked under Spec *)

\* the provider calls a run has made, as a set
Called(id) == {calls[id][n] : n \in 1..Len(calls[id])}

\* the run of job id has handed its outcome to the job store
Reported(id) == id \in DOMAIN jobs /\ pc[id] = "done" /\ mm[id] # NoneD

\* C1: a job whose orchestrator run ended in failure is stored as failed, with
\* an error and without a result, and a job is stored as completed only when
\* its run reached the orchestrator's completed state.
C1_RunOutcomeReported ==
    \A id \in JobIds :
        Reported(id) =>
            IF mm[id].status = "completed"
            THEN jobs[id].status = "completed"
            ELSE /\ jobs[id].status = "failed"
                 /\ jobs[id].error # NoneS
                 /\ jobs[id].result = NoneD

\* C2: once a stored job is completed or failed, no step changes its record;
\* the record can only disappear, and only in a step that answers a cleanup.
C2_TerminalAbsorbing ==
    [][\A id \in DOMAIN jobs :
          IsTerminal(jobs[id]) =>
              IF id \in DOMAIN jobs'
              THEN jobs'[id] = jobs[id]
              ELSE lastResp' # NoneD /\ lastResp'.op = "cleanup"]_vars

\* a terminal job has seen the run of a later job finish after its own
C2_Witness ==
    \E id, k \in DOMAIN jobs :
        /\ id # k
        /\ IsTerminal(jobs[id]) /\ IsTerminal(jobs[k])
        /\ jobs[k].start_time > jobs[id].end_time
        /\ Reported(k)

\* C3: when the run of an accepted job has come to its end, the job is stored
\* as completed or failed; no ending of a run leaves its job pending.
C3_RunEndsTerminal ==
    \A id \in DOMAIN jobs :
        pc[id] \in {"done", "exited", "keyerror"} => IsTerminal(jobs[id])

\* C4: the step that answers a submit with 202 has stored a pending record
\* with null result and error under an id that was never used, has queued
\* one run for it and has moved no run forward; no other step queues a run,
\* and a stored record stays stored until a cleanup.
C4_SubmitCreatesJob ==
    [][/\ \A id \in JobIds :
            pc'[id] = "queued" /\ pc[id] # "queued" =>
                /\ lastResp' # NoneD
                /\ lastResp'.op = "generate" /\ lastResp'.code = 202
                /\ lastResp'.body.job_id = id
                /\ lastResp'.body.status = "pending"
                /\ id \notin issued /\ id \notin DOMAIN jobs /\ pc[id] = "none"
                /\ id \in DOMAIN jobs'
                /\ jobs'[id].status = "pending"
                /\ jobs'[id].result = NoneD /\ jobs'[id].error = NoneS
                /\ \A k \in JobIds \ {id} : pc'[k] = pc[k]
                /\ \A k \in DOMAIN jobs : k \in DOMAIN jobs' /\ jobs'[k] = jobs[k]
                /\ mm' = mm /\ calls' = calls
       /\ (lastResp' # NoneD /\ lastResp'.op = "generate" /\ lastResp'.code = 202)
              => pc'[lastResp'.body.job_id] = "queued"
                 /\ pc[lastResp'.body.job_id] = "none"
       /\ \A id \in DOMAIN jobs :
              id \in DOMAIN jobs' \/ (lastResp' # NoneD /\ lastResp'.op = "cleanup")
      ]_vars

\* a submit is answered while the run of an earlier job is inside the pipeline
C4_Witness ==
    /\ lastResp # NoneD
    /\ lastResp.op = "generate" /\ lastResp.code = 202
    /\ \E k \in JobIds \ {lastResp.body.job_id} : pc[k] \in Stages
    /\ lastResp.body.job_id \in DOMAIN jobs

\* the three shapes of a status body
StatusShapes(body) ==
    \/ body.status = "pending" /\ body.result = NoneD /\ body.error = NoneS
    \/ body.status = "completed" /\ body.result # NoneD /\ body.error = NoneS
    \/ body.status = "failed" /\ body.result = NoneD /\ body.error # NoneS

\* C5: every status poll that finds the job answers with one of the three
\* shapes (pending, null, null), (completed, result, null), (failed, null,
\* error), wherever the runs stand.
C5_PollSeesWholeRecord ==
    (lastResp # NoneD /\ lastResp.op = "status" /\ lastResp.code = 200)
        => StatusShapes(lastResp.body)

\* a poll reports a job completed while the run of the other job is under way
C5_Witness ==
    /\ lastResp # NoneD
    /\ lastResp.op = "status" /\ lastResp.code = 200
    /\ lastResp.body.status = "completed"
    /\ \E k \in JobIds \ {lastResp.arg} : pc[k] \in Stages \cup {"returned"}

\* C6: a result fetch answers not-found for an id that is not stored, an
\* error without a result for a stored job that is pending or failed, and
\* the stored, non-null result for a stored job that is completed.
C6_ResultOnlyWhenCompleted ==
    (lastResp # NoneD /\ lastResp.op = "result") =>
        IF lastResp.arg \notin DOMAIN jobs
        THEN lastResp.code = 404 /\ lastResp.body = NoneD
        ELSE IF jobs[lastResp.arg].status = "completed"
        THEN /\ lastResp.code = 200
             /\ lastResp.body # NoneD
             /\ lastResp.body = jobs[lastResp.arg].result
        ELSE lastResp.code \in {404, 425} /\ lastResp.body = NoneD

\* a fetch has handed out the result of a completed job
C6_Witness ==
    /\ lastResp # NoneD
    /\ lastResp.op = "result" /\ lastResp.code = 200
    /\ lastResp.arg \in DOMAIN jobs
    /\ \E k \in DOMAIN jobs : jobs[k].status = "pending"

\* the jobs a cleanup with max_age_hours = h is to remove from store at time t
Expired(store, h, t) ==
    {id \in DOMAIN store :
        /\ IsTerminal(store[id])
        /\ "end_time" \in DOMAIN store[id]
        /\ store[id].end_time < t - (h * SecondsPerHour)}

\* C7: a cleanup removes the terminal jobs whose end time is before the cutoff
\* and no other, changes no record it keeps and no file; a job whose run has
\* not finished is stored and pending after every step.
C7_CleanupExact ==
    [][/\ (lastResp' # NoneD /\ lastResp'.op = "cleanup") =>
              /\ DOMAIN jobs' = (DOMAIN jobs) \ Expired(jobs, lastResp'.arg, now)
              /\ \A id \in DOMAIN jobs' : jobs'[id] = jobs[id]
              /\ lastResp'.body.cleaned =
                     Cardinality(Expired(jobs, lastResp'.arg, now))
              /\ files' = files
       /\ \A id \in JobIds :
              pc'[id] \in Stages \cup {"queued", "submitted", "returned"} =>
                  id \in DOMAIN jobs' /\ jobs'[id].status = "pending"
      ]_vars

\* a cleanup has removed an old job and kept a pending one and every file
C7_Witness ==
    /\ lastResp # NoneD
    /\ lastResp.op = "cleanup" /\ lastResp.body.cleaned = 1
    /\ \E k \in DOMAIN jobs : jobs[k].status = "pending" /\ pc[k] \in Stages
    /\ \E k \in JobIds : k \notin DOMAIN jobs /\ <<k, "video">> \in DOMAIN files

-----------------------------------------------------------------------------
(* Properties of one run of generate_video, checked under RunSpec *)

\* the entries of the state dict that hold the output of a stage
StageOutputs ==
    {"input_prompt", "script_data", "audio_info", "transcription", "prompt_data",
     "image_data"}

\* C8: every step that takes a run out of the pipeline is a return of
\* generate_video; the state returned is completed or error, and when it is
\* error it has an error string and an end time and holds every stage output
\* that the state held before the step.
C8_HandlerReturnsState ==
    [][\A id \in JobIds :
          pc[id] \in Stages /\ pc'[id] \notin Stages =>
              /\ pc'[id] = "returned"
              /\ mm'[id].status \in {"completed", "error"}
              /\ mm'[id].status = "error" =>
                     /\ "error" \in DOMAIN mm'[id]
                     /\ mm'[id].error # NoneS
                     /\ mm'[id].end_time # NoTime
                     /\ \A k \in StageOutputs :
                            mm[id][k] # NoneD => mm'[id][k] = mm[id][k]
      ]_vars

\* a run has failed after its transcription was stored in the state
C8_Witness ==
    /\ pc[1] = "returned"
    /\ mm[1].status = "error"
    /\ mm[1].transcription # NoneD
    /\ mm[1].audio_info # NoneD

\* the script stage of the run of job id has failed
ScriptFailed(id) ==
    /\ mm[id] # NoneD
    /\ \/ mm[id].script_data # NoneD /\ "error" \in DOMAIN mm[id].script_data
       \/ /\ mm[id].script_data = NoneD
          /\ pc[id] \in {"returned", "done"}
          /\ mm[id].parsed_topic # NoneS

\* C9: after a failed script stage the run is at the speech stage or has
\* returned with status error, never completed, and has called no speech,
\* transcription, prompt or image provider.
C9_ScriptFailureFatal ==
    \A id \in JobIds :
        ScriptFailed(id) =>
            /\ pc[id] \in {"tts", "returned", "done"}
            /\ pc[id] # "tts" => mm[id].status = "error"
            /\ Called(id) \cap {"tts", "transcribe", "transcribe_raised", "prompt",
                             "prompt_failed", "image"} = {}

\* a run whose script generation handed back an error dict has returned
C9_Witness ==
    /\ pc[1] = "returned"
    /\ ScriptFailed(1)
    /\ mm[1].script_data # NoneD
    /\ Called(1) = {"script"}

\* speech synthesis of the run of job id has handed back no audio URL
AudioFailed(id) ==
    /\ mm[id] # NoneD
    /\ mm[id].audio_info # NoneD
    /\ mm[id].audio_info.url = NoneS

\* C10: after a speech stage that yields no audio URL the run is at the
\* transcription stage or has returned with status error, never completed,
\* and has called no transcription, prompt or image provider.
C10_SpeechFailureFatal ==
    \A id \in JobIds :
        AudioFailed(id) =>
            /\ pc[id] \in {"transcribe", "returned", "done"}
            /\ pc[id] # "transcribe" => mm[id].status = "error"
            /\ Called(id) \cap {"transcribe", "transcribe_raised", "prompt",
                             "prompt_failed", "image"} = {}

\* a run whose speech provider was called and failed has returned
C10_Witness ==
    /\ pc[1] = "returned"
    /\ AudioFailed(1)
    /\ "tts" \in Called(1)

\* every chunk of the audio of job id raised in download or transcription
TranscriptionFailed(id) ==
    /\ "transcribe_raised" \in Called(id)
    /\ "transcribe" \notin Called(id)

\* C11: once the download or transcription of the audio chunks has raised, the
\* run is never completed, it has status error when it has returned, and
\* neither the prompt stage nor the image stage is executed.
C11_TranscriptionFailureFatal ==
    \A id \in JobIds :
        TranscriptionFailed(id) =>
            /\ mm[id].status # "completed"
            /\ pc[id] \in {"returned", "done"} => mm[id].status = "error"
            /\ pc[id] \notin {"images", "assemble", "cleanup"}
            /\ Called(id) \cap {"prompt", "prompt_failed", "image"} = {}

\* the prompt stage of the run of job id raised and the fallback took its place
PromptRaised(id) ==
    /\ mm[id] # NoneD
    /\ mm[id].prompt_data # NoneD
    /\ "error" \in DOMAIN mm[id].prompt_data

\* what C12 says of a run up to its return: every transcript segment has the
\* fallback prompt made of the first 100 characters of its own text, the image
\* stage is the next stage and makes one task per segment
FallbackInPlace(id) ==
    LET s == mm[id]
        T == s.transcription.segments
        P == s.prompt_data.segments
    IN /\ Len(P) = Len(T)
       /\ \A n \in 1..Len(T) :
             /\ P[n].text = T[n].text
             /\ P[n].image_prompt = VisualPrompt(T[n].text)
       /\ Len(ImagePrompts(s.prompt_data)) = Len(T)
       /\ \A a, b \in 1..Len(T) :
             ImagePrompts(s.prompt_data)[a].key = ImagePrompts(s.prompt_data)[b].key
                 => a = b
       /\ pc[id] \in {"images", "assemble", "cleanup", "returned", "done"}
       /\ pc[id] # "images" =>
             /\ s.image_data # NoneD
             /\ DictKeys(s.image_data) =
                    {ImagePrompts(s.prompt_data)[n].key : n \in 1..Len(T)}
             /\ Len(T) > 0 => "image" \in Called(id)

\* C12 as it is worded: after a prompt stage that raised, the fallback is in
\* place and the run returns completed, never error.
C12_AsWorded ==
    \A id \in JobIds :
        PromptRaised(id) =>
            /\ FallbackInPlace(id)
            /\ pc[id] \in {"returned", "done"} => mm[id].status = "completed"

\* C12: after a prompt stage that raised, every transcript segment has the
\* fallback prompt made of the first 100 characters of its own text, the image
\* stage runs with one task per segment, and the run returns completed unless
\* the final save of the assembly and save_minimal both raise afterwards.
C12_PromptFailureNonFatal ==
    \A id \in JobIds :
        PromptRaised(id) =>
            /\ FallbackInPlace(id)
            /\ pc[id] \in {"returned", "done"} =>
                  \/ mm[id].status = "completed"
                  \/ /\ mm[id].status = "error"
                     /\ mm[id].error = "save failed"
                     /\ mm[id].json_path = NoneS

\* a run whose prompt stage raised on a transcript with the long text has made
\* its image call and returned completed
C12_Witness ==
    /\ pc[1] = "returned"
    /\ PromptRaised(1)
    /\ mm[1].status = "completed"
    /\ "image" \in Called(1)
    /\ \E n \in 1..Len(mm[1].transcription.segments) :
          mm[1].transcription.segments[n].text = LongText

\* the batch call of the image stage of the run of job id raised
BatchRaised(id) ==
    /\ mm[id] # NoneD
    /\ "image_generation_error" \in DOMAIN mm[id]

\* what C13 says of a run up to its return: every task key has a placeholder
\* with null URLs and the reason, and once the assembly has merged them every
\* segment of the document carries a null image_url and a null depth_map_url
PlaceholdersInPlace(id) ==
    LET s == mm[id]
        tasks == ImagePrompts(s.prompt_data)
        held == s.image_data.items
    IN /\ "image" \in Called(id)
       /\ Len(tasks) > 0
       /\ DictKeys(s.image_data) = {tasks[n].key : n \in 1..Len(tasks)}
       /\ \A n \in 1..Len(held) :
             /\ held[n].val.image_url = NoneS
             /\ held[n].val.depth_map_url = NoneS
             /\ "error" \in DOMAIN held[n].val
             /\ held[n].val.error = s.image_generation_error
       /\ pc[id] \in {"assemble", "cleanup", "returned", "done"}
       /\ pc[id] # "assemble" =>
             /\ Len(doc[id].segments) = Len(tasks)
             /\ \A n \in 1..Len(doc[id].segments) :
                   /\ "image_url" \in DOMAIN doc[id].segments[n]
                   /\ "depth_map_url" \in DOMAIN doc[id].segments[n]
                   /\ doc[id].segments[n].image_url = NoneS
                   /\ doc[id].segments[n].depth_map_url = NoneS

\* C13 as it is worded: after a batch call that raised, the placeholders are
\* in place and the run returns completed.
C13_AsWorded ==
    \A id \in JobIds :
        BatchRaised(id) =>
            /\ PlaceholdersInPlace(id)
            /\ pc[id] \in {"returned", "done"} => mm[id].status = "completed"

\* C13: after a batch call that raised, every task key has a placeholder with
\* null URLs and the reason, every segment of the assembled document carries
\* null image_url and depth_map_url, and the run returns completed unless the
\* final save of the assembly and save_minimal both raise afterwards.
C13_BatchFailureNonFatal ==
    \A id \in JobIds :
        BatchRaised(id) =>
            /\ PlaceholdersInPlace(id)
            /\ pc[id] \in {"returned", "done"} =>
                  \/ mm[id].status = "completed"
                  \/ /\ mm[id].status = "error"
                     /\ mm[id].error = "save failed"
                     /\ mm[id].json_path = NoneS

\* a run whose batch call raised has returned completed with a document of
\* two segments
C13_Witness ==
    /\ pc[1] = "returned"
    /\ BatchRaised(1)
    /\ mm[1].status = "completed"
    /\ mm[1].json_path = "video.json"
    /\ Len(doc[1].segments) = 2

\* the run of job id has returned in failure
RunFailed(id) ==
    /\ pc[id] \in {"returned", "done"}
    /\ mm[id] # NoneD
    /\ mm[id].status = "error"

\* C14: when a run has returned in failure, the minimal document save_minimal
\* writes, carrying the error, is among the files of the job.
C14_ErrorArtifactPersisted ==
    \A id \in JobIds :
        RunFailed(id) =>
            /\ <<id, "video_error">> \in DOMAIN files
            /\ "error_info" \in DOMAIN files[<<id, "video_error">>]

\* the prompt stage of job id degraded: it raised, or every call to the
\* language model failed and the prompts are the ones made of the texts
PromptDegraded(id) == PromptRaised(id) \/ "prompt_failed" \in Called(id)

\* C15: the result stored for a completed run whose prompt stage degraded
\* carries the error of the prompt stage, and the one stored for a completed
\* run whose image batch raised carries the error of the image stage.
C15_DegradationRecorded ==
    \A id \in DOMAIN jobs :
        (/\ pc[id] = "done"
         /\ jobs[id].status = "completed"
         /\ jobs[id].result # NoneD
         /\ jobs[id].result.status = "completed") =>
            /\ PromptDegraded(id) =>
                  \/ "error" \in DOMAIN jobs[id].result.prompt_data
                  \/ "prompt_generation_error" \in DOMAIN jobs[id].result
            /\ BatchRaised(id) =>
                  "image_generation_error" \in DOMAIN jobs[id].result

\* the assembly of the run of job id has merged the image results
Assembled(id) ==
    /\ mm[id] # NoneD
    /\ pc[id] \in {"cleanup", "returned", "done"}
    /\ mm[id].image_data # NoneD

\* C16: in the assembled document every segment that has an image result
\* attached carries the URLs of the result of the task made for the segment
\* at its own position.
C16_OwnResultAttached ==
    \A id \in JobIds :
        Assembled(id) =>
            LET tasks == ImagePrompts(mm[id].prompt_data)
            IN \A n \in 1..Len(doc[id].segments) :
                  "image_url" \in DOMAIN doc[id].segments[n] =>
                      LET own == DictVal(mm[id].image_data, tasks[n].key)
                      IN /\ doc[id].segments[n].image_url = own.image_url
                         /\ doc[id].segments[n].depth_map_url = own.depth_map_url

-----------------------------------------------------------------------------
(* The final assembly as a function of its inputs: the run of job 1 stands   *)
(* before the assembly with a transcription, a prompt output and an image    *)
(* result dict drawn independently of one another, so that their segment     *)
(* counts differ and the dict holds keys of every form update_segments reads *)

\* transcriptions of up to MaxMerge segments
MergeTranscriptions ==
    {ProcessAudio(<<SpokenChunk(t)>>) : t \in SeqsUpTo(Texts, MaxMerge)}

\* prompt outputs of up to MaxMerge segments
MergePrompts ==
    {PromptData(ProcessAudio(<<SpokenChunk(t)>>), FALSE) :
        t \in SeqsUpTo({"intro", LongText}, MaxMerge)}

\* the keys an image result dict can hold: bare indices and task keys
MergeKeys ==
    {IdKey(0), IdKey(1), HashKey(1, "Intro "), HashKey(2, "intro"),
     HashKey(1, LongText)}

\* the value of the k-th entry of an image result dict: a result, or None
MergeValues(k) ==
    {[image_url |-> "image_" \o ToString(k), depth_map_url |-> NoneS], NoneD}

\* image result dicts of up to MaxKeys entries, in every insertion order
MergeImages ==
    {[items |-> e] :
        e \in {q \in SeqsUpTo([key : MergeKeys,
                               val : UNION {MergeValues(k) : k \in 1..MaxKeys}],
                              MaxKeys) :
                  /\ \A a, b \in 1..Len(q) : q[a].key = q[b].key => a = b
                  /\ \A k \in 1..Len(q) : q[k].val \in MergeValues(k)}}

MergeInit ==
    /\ jobs = (1 :> NewJob([len |-> MIN_PROMPT_LENGTH], 0))
    /\ issued = {1}
    /\ task = [id \in JobIds |-> IF id = 1 THEN [len |-> MIN_PROMPT_LENGTH] ELSE NoneD]
    /\ pc = [id \in JobIds |-> IF id = 1 THEN "assemble" ELSE "none"]
    /\ \E transcription \in MergeTranscriptions, prompt_data \in MergePrompts,
          image_data \in MergeImages :
          mm = [id \in JobIds |->
                   IF id = 1
                   THEN [InitialState(0) EXCEPT
                            !.input_prompt = task[1],
                            !.parsed_topic = "topic",
                            !.script_data = ScriptData("ok"),
                            !.audio_info = AudioInfo(TRUE),
                            !.transcription = transcription,
                            !.prompt_data = prompt_data,
                            !.image_data = image_data,
                            !.status = "generating_images"]
                   ELSE NoneD]
    /\ doc = [id \in JobIds |->
                 IF id = 1
                 THEN UpdateAudio(UpdateScript(InitialJson(0), ScriptData("ok"), 0),
                                  AudioInfo(TRUE), 0)
                 ELSE NoneD]
    /\ calls = [id \in JobIds |->
                   IF id = 1 THEN <<"script", "tts", "transcribe", "prompt", "image">>
                   ELSE << >>]
    /\ files = << >>
    /\ now = 0
    /\ alive = TRUE
    /\ lastResp = NoneD
    /\ batch = NoneD

MergeNext ==
    \/ Tick
    \/ \E disk \in DiskOutcomes, minimal \in BOOLEAN : AssembleStage(1, disk, minimal)
    \/ CleanupStage(1)
    \/ RunFinish(1)

MergeSpec == MergeInit /\ [][MergeNext]_vars

\* the assembly step of the run of job id
AssemblyStep(id) == pc[id] = "assemble" /\ pc'[id] # "assemble"

\* C17: the assembly of a transcription of T segments and a prompt output of
\* P segments cuts both lists to min(T, P), the document has exactly
\* min(T, P) segments, and its segment i is made of transcript segment i and
\* prompt segment i.
C17_Reconciliation ==
    [][\A id \in JobIds :
          AssemblyStep(id) =>
              LET T == mm[id].transcription.segments
                  P == mm[id].prompt_data.segments
                  m == IF Len(T) <= Len(P) THEN Len(T) ELSE Len(P)
                  merged == doc'[id].segments
              IN /\ mm'[id].transcription.segments = SubSeq(T, 1, m)
                 /\ mm'[id].prompt_data.segments = SubSeq(P, 1, m)
                 /\ Len(merged) = m
                 /\ \A n \in 1..m :
                       /\ merged[n].text = T[n].text
                       /\ merged[n].start_time = T[n].start_time
                       /\ merged[n].end_time = T[n].end_time
                       /\ merged[n].image_prompt = P[n].image_prompt]_vars

\* an assembly has merged a transcription of one segment with a prompt output
\* of two segments into a document of one segment
C17_Witness ==
    /\ pc[1] = "cleanup"
    /\ mm[1].prompt_data.count = 2
    /\ mm[1].transcription.word_count = 1
    /\ Len(doc[1].segments) = 1
    /\ Len(mm[1].prompt_data.segments) = 1

-----------------------------------------------------------------------------
(* Properties of the document, checked under RunSpec *)

\* the ids of the segments of a document are 0..N-1 in list order
DenseIds(d) == \A n \in 1..Len(d.segments) : d.segments[n].id = n - 1

\* C18: after every sequence of update_segments calls of a run, the segment
\* ids of the document, and of the document as it is stored, are exactly
\* 0..N-1 in list order; so they are in the artifact of a completed job.
C18_SegmentIdsDense ==
    \A id \in JobIds :
        /\ doc[id] # NoneD => DenseIds(doc[id])
        /\ <<id, "video">> \in DOMAIN files => DenseIds(files[<<id, "video">>])
        /\ (id \in DOMAIN jobs /\ jobs[id].result # NoneD
            /\ "json_data" \in DOMAIN jobs[id].result) =>
               DenseIds(jobs[id].result.json_data)

\* a job has completed with a stored artifact of two segments, after the
\* three update_segments calls of its run
C18_Witness ==
    /\ pc[1] = "done"
    /\ jobs[1].status = "completed"
    /\ jobs[1].result.status = "completed"
    /\ <<1, "video">> \in DOMAIN files
    /\ Len(files[<<1, "video">>].segments) = 2
    /\ Len(jobs[1].result.json_data.segments) = 2

-----------------------------------------------------------------------------
(* The transcription of an audio of several chunks: the run of job 1 stands  *)
(* before the transcription stage with an audio of up to MaxChunks chunks,   *)
(* and each chunk raises or holds up to MaxChunkSegs utterances whose times  *)
(* within the chunk lie in 0..MaxTime                                        *)

\* every segment ends no earlier than it starts, and each one starts no
\* earlier than the one before it starts and ends
WellTimed(segments) ==
    /\ \A n \in 1..Len(segments) : segments[n].end_time >= segments[n].start_time
    /\ \A n \in 1..(Len(segments) - 1) :
          /\ segments[n + 1].start_time >= segments[n].start_time
          /\ segments[n + 1].start_time >= segments[n].end_time

\* what process_audio can get for one chunk whose own segments are well timed
TimedChunks ==
    {ChunkRaised} \cup
    {ChunkTranscription(u) :
        u \in {q \in SeqsUpTo({Utterance("intro", a, b) : a, b \in 0..MaxTime},
                              MaxChunkSegs) : WellTimed(q)}}

AudioInit ==
    /\ jobs = (1 :> NewJob([len |-> MIN_PROMPT_LENGTH], 0))
    /\ issued = {1}
    /\ task = [id \in JobIds |-> IF id = 1 THEN [len |-> MIN_PROMPT_LENGTH] ELSE NoneD]
    /\ pc = [id \in JobIds |-> IF id = 1 THEN "transcribe" ELSE "none"]
    /\ \E n \in 1..MaxChunks :
          /\ mm = [id \in JobIds |->
                      IF id = 1
                      THEN [InitialState(0) EXCEPT
                               !.input_prompt = task[1],
                               !.parsed_topic = "topic",
                               !.script_data = ScriptData("ok"),
                               !.audio_info = ChunkedAudioInfo(n),
                               !.status = "generating_tts"]
                      ELSE NoneD]
          /\ doc = [id \in JobIds |->
                       IF id = 1
                       THEN UpdateAudio(UpdateScript(InitialJson(0), ScriptData("ok"), 0),
                                        ChunkedAudioInfo(n), 0)
                       ELSE NoneD]
    /\ calls = [id \in JobIds |-> IF id = 1 THEN <<"script", "tts">> ELSE << >>]
    /\ files = << >>
    /\ now = 0
    /\ alive = TRUE
    /\ lastResp = NoneD
    /\ batch = NoneD

AudioNext ==
    \/ Tick
    \/ \E stored \in BOOLEAN, disk \in DiskOutcomes :
          TranscribeStage(1, TimedChunks, stored, disk)

AudioSpec == AudioInit /\ [][AudioNext]_vars

\* C19: the combined transcription of the chunks of an audio, some of which
\* may raise or hold no segment, and the segments the document makes of it,
\* are well timed when the segments of each chunk are: each segment ends no
\* earlier than it starts, and the segments are in the order of their start
\* times and do not overlap.
C19_CombinedWellTimed ==
    \A id \in JobIds :
        (mm[id] # NoneD /\ mm[id].transcription # NoneD) =>
            /\ WellTimed(mm[id].transcription.segments)
            /\ WellTimed(doc[id].segments)
            /\ \A n \in 1..Len(doc[id].segments) : doc[id].segments[n].duration >= 0

\* the audio had three chunks: one raised and the two others gave segments
\* that start after time 0 in the combined transcription
C19_Witness ==
    /\ pc[1] = "prompts"
    /\ Len(calls[1]) = 5
    /\ "transcribe_raised" \in Called(1)
    /\ Len(mm[1].transcription.segments) >= 3
    /\ mm[1].transcription.segments[3].start_time > MaxTime

-----------------------------------------------------------------------------
(* Properties of the correlation, checked under MergeSpec *)

\* the image attachment of a segment of the document
Attachment(segment) ==
    IF "image_url" \in DOMAIN segment
    THEN <<segment.image_url, segment.depth_map_url>>
    ELSE << >>

\* C20: once the assembly has merged its inputs, update_segments applied
\* again to the same transcription, prompt data and image results gives the
\* same document but for its time of update, whatever the time; and a segment
\* whose text is replaced by another text with the same normalized text, at
\* the same ordinal, gets the same attachment.
C20_CorrelationIdempotent ==
    \A id \in JobIds :
        Assembled(id) =>
            LET s == mm[id]
            IN /\ \A t \in 0..MaxClock :
                     UpdateSegments(doc[id], s.transcription, s.prompt_data,
                                    s.image_data, t)
                         = [doc[id] EXCEPT !.metadata.updated_at = t]
               /\ \A n \in 1..Len(doc[id].segments) :
                     \A text \in Texts :
                         Normalize(text) = Normalize(doc[id].segments[n].text) =>
                             Attachment(NewSegment(
                                 [s.transcription.segments[n] EXCEPT !.text = text],
                                 n - 1, s.prompt_data, s.image_data))
                                 = Attachment(doc[id].segments[n])

\* the assembly has attached a result to a segment of text "Intro " through
\* the hash of its normalized text, no key being the bare index of the segment
C20_Witness ==
    /\ pc[1] = "cleanup"
    /\ Len(doc[1].segments) = 2
    /\ doc[1].segments[2].text = "Intro "
    /\ IdKey(1) \notin DictKeys(mm[1].image_data)
    /\ "image_url" \in DOMAIN doc[1].segments[2]
    /\ doc[1].segments[2].image_url # NoneS

-----------------------------------------------------------------------------
(* src/image_generator.py: generate_batch, the executor of the image tasks.  *)
(* batch holds the locals of the call in progress.  The tasks are 1..n in    *)
(* the order of prompts.items(); the insertion order of the result dicts is  *)
(* not kept here (ImageStage keeps it).                                      *)

MIN_WORKERS == 2
MAX_WORKERS == 20
InitialWorkers == 15
DefaultBatchSize == 20
MaxBackoff == 60
ProviderRetries == 2

\* the batch sizes a caller passes: a small one, and the default
BatchSizes == {SmallBatch, DefaultBatchSize}

\* {"image_url": None, "depth_map_url": None}
NullResult == [image_url |-> NoneS, depth_map_url |-> NoneS]

\* what the provider can answer to the request of a task: an image, HTTP 429,
\* or nothing at all (the request raises a RequestException)
ProviderAnswers == {"image", "http_429", "network_error"}

\* an exception that leaves the task, with 429 in its text or without
TaskErrors == {"raise_429", "raise_other"}

\* ImageGenerator.generate_image: the dict it returns for task k on an answer
\* of the provider; it returns on every answer
GenerateImage(k, answer) ==
    IF answer = "image"
    THEN [image_url |-> "image" \o ToString(k), depth_map_url |-> "depth" \o ToString(k)]
    ELSE NullResult

\* the requests generate_image sends for one task: a status that is not 200
\* ends the attempts on the provider, a RequestException is retried
Requests(answer) == IF answer = "network_error" THEN ProviderRetries ELSE 1

\* "429" in str(e)
Has429(err) == err = "raise_429"

\* the tasks of group g: prompt_items[(g-1)*size : min(g*size, n)]
GroupTasks(n, size, g) ==
    {k \in 1..n : k > (g - 1) * size /\ k <= Min(g * size, n)}

\* (n + batch_size - 1) // batch_size
TotalBatches(n, size) == (n + size - 1) \div size

\* the top of generate_batch's loop body: the pool is made with the present
\* current_workers and every task of the group is submitted to it
StartGroup(b, g) ==
    [b EXCEPT !.group = g, !.pool = b.current_workers, !.rate_limited = FALSE,
              !.batch_results = << >>, !.last = NoneD,
              !.st = [k \in 1..b.n |->
                         IF k \in GroupTasks(b.n, b.size, g) THEN "queued" ELSE b.st[k]]]

\* the tasks of the pool that are executing generate_image
Running(b) == {k \in 1..b.n : b.st[k] = "running"}

\* generate_batch is called with n prompts and a batch size, the provider
\* being reachable or not
BatchCall(n, size, available) ==
    /\ batch = [phase |-> "idle"]
    /\ batch' = StartGroup(
           [phase |-> "group", n |-> n, size |-> size, available |-> available,
            group |-> 0, pool |-> 0, current_workers |-> InitialWorkers,
            backoff_factor |-> 1, rate_limited |-> FALSE,
            st |-> [k \in 1..n |-> "later"],
            batch_results |-> << >>, results |-> << >>, checkpoints |-> << >>,
            requests |-> 0, last |-> NoneD], 1)
    /\ UNCHANGED <<jobs, issued, task, pc, mm, doc, calls, files, now, alive,
                   lastResp>>

\* a thread of the pool takes the task that was submitted first
WorkerTakes ==
    /\ "phase" \in DOMAIN batch /\ batch.phase = "group"
    /\ Cardinality(Running(batch)) < batch.pool
    /\ \E k \in 1..batch.n :
          /\ batch.st[k] = "queued"
          /\ \A j \in 1..(k - 1) : batch.st[j] # "queued"
          /\ batch' = [batch EXCEPT !.st[k] = "running", !.last = NoneD]
    /\ UNCHANGED <<jobs, issued, task, pc, mm, doc, calls, files, now, alive,
                   lastResp>>

\* variant: a rate limit lowers the workers without a floor
AfterFutureNoFloor(b, k, outcome) ==
    IF outcome \in ProviderAnswers
    THEN [b EXCEPT !.batch_results = (k :> GenerateImage(k, outcome)) @@ @,
                   !.current_workers =
                       IF ~b.rate_limited /\ @ < MAX_WORKERS
                       THEN Min(@ + 1, MAX_WORKERS) ELSE @]
    ELSE IF Has429(outcome)
    THEN [b EXCEPT !.batch_results = (k :> NullResult) @@ @,
                   !.rate_limited = TRUE,
                   !.current_workers = @ \div 2,
                   !.backoff_factor = Min(@ * 2, MaxBackoff)]
    ELSE [b EXCEPT !.batch_results = (k :> NullResult) @@ @,
                   !.backoff_factor = 1]

\* variant: a rate limit takes one worker away instead of half of them
AfterFutureOneLess(b, k, outcome) ==
    IF outcome \in ProviderAnswers
    THEN [b EXCEPT !.batch_results = (k :> GenerateImage(k, outcome)) @@ @,
                   !.current_workers =
                       IF ~b.rate_limited /\ @ < MAX_WORKERS
                       THEN Min(@ + 1, MAX_WORKERS) ELSE @]
    ELSE IF Has429(outcome)
    THEN [b EXCEPT !.batch_results = (k :> NullResult) @@ @,
                   !.rate_limited = TRUE,
                   !.current_workers = Max(@ - 1, MIN_WORKERS),
                   !.backoff_factor = Min(@ * 2, MaxBackoff)]
    ELSE [b EXCEPT !.batch_results = (k :> NullResult) @@ @,
                   !.backoff_factor = 1]

\* variant: the backoff doubles without a ceiling
AfterFutureNoCeiling(b, k, outcome) ==
    IF outcome \in ProviderAnswers
    THEN [b EXCEPT !.batch_results = (k :> GenerateImage(k, outcome)) @@ @,
                   !.current_workers =
                       IF ~b.rate_limited /\ @ < MAX_WORKERS
                       THEN Min(@ + 1, MAX_WORKERS) ELSE @]
    ELSE IF Has429(outcome)
    THEN [b EXCEPT !.batch_results = (k :> NullResult) @@ @,
                   !.rate_limited = TRUE,
                   !.current_workers = Max(@ \div 2, MIN_WORKERS),
                   !.backoff_factor = @ * 2]
    ELSE [b EXCEPT !.batch_results = (k :> NullResult) @@ @,
                   !.backoff_factor = 1]

\* the body of the as_completed loop for the future of task k: the locals
\* after it, the future having returned generate_image's dict or raised
AfterFuture(b, k, outcome) ==
    IF outcome \in ProviderAnswers
    THEN [b EXCEPT !.batch_results = (k :> GenerateImage(k, outcome)) @@ @,
                   !.current_workers =
                       IF ~b.rate_limited /\ @ < MAX_WORKERS
                       THEN Min(@ + 1, MAX_WORKERS) ELSE @]
    ELSE IF Has429(outcome)
    THEN [b EXCEPT !.batch_results = (k :> NullResult) @@ @,
                   !.rate_limited = TRUE,
                   !.current_workers = Max(@ \div 2, MIN_WORKERS),
                   !.backoff_factor = Min(@ * 2, MaxBackoff)]
    ELSE [b EXCEPT !.batch_results = (k :> NullResult) @@ @,
                   !.backoff_factor = 1]

\* time.sleep(backoff_factor) of the rate-limit branch, 0 when no sleep is made
Slept(b, outcome) == IF Has429(outcome) THEN Min(b.backoff_factor * 2, MaxBackoff) ELSE 0

\* task k completes and the as_completed loop handles its future
TaskCompletes(k, outcome) ==
    /\ "phase" \in DOMAIN batch /\ batch.phase = "group"
    /\ k \in 1..batch.n /\ batch.st[k] = "running"
    /\ ~batch.available => outcome = "network_error"
    /\ batch' = [AfterFuture(batch, k, outcome) EXCEPT
                    !.st[k] = "done",
                    !.requests = @ + Requests(outcome),
                    !.last = [task |-> k, outcome |-> outcome,
                              slept |-> Slept(batch, outcome)]]
    /\ UNCHANGED <<jobs, issued, task, pc, mm, doc, calls, files, now, alive,
                   lastResp>>

\* len([res for res in batch_results.values() if res.get(key)])
CountWith(batch_results, key) ==
    Cardinality({k \in DOMAIN batch_results : batch_results[k][key] # NoneS})

\* variant: the record holds every result collected so far
CheckpointOfAll(b) ==
    [results |-> b.batch_results @@ b.results, batch_number |-> b.group,
     total_batches |-> TotalBatches(b.n, b.size),
     success_rate |-> <<CountWith(b.batch_results, "image_url"),
                        Cardinality(DOMAIN b.batch_results)>>,
     concurrency |-> b.current_workers]

\* the record generate_batch writes at the end of a group
Checkpoint(b) ==
    [results |-> b.batch_results, batch_number |-> b.group,
     total_batches |-> TotalBatches(b.n, b.size),
     success_rate |-> <<CountWith(b.batch_results, "image_url"),
                        Cardinality(DOMAIN b.batch_results)>>,
     concurrency |-> b.current_workers]

\* the end of a group: results.update(batch_results) and the save_json of the
\* group's record, which raises out of generate_batch when the write fails;
\* then the next group, or the return of results
GroupEnd(stored) ==
    /\ "phase" \in DOMAIN batch /\ batch.phase = "group"
    /\ \A k \in GroupTasks(batch.n, batch.size, batch.group) : batch.st[k] = "done"
    /\ LET b1 == [batch EXCEPT !.results = batch.batch_results @@ @, !.last = NoneD]
           b2 == [b1 EXCEPT !.checkpoints = Append(@, Checkpoint(batch))]
       IN batch' = IF ~stored THEN [b1 EXCEPT !.phase = "raised"]
                   ELSE IF batch.group = TotalBatches(batch.n, batch.size)
                   THEN [b2 EXCEPT !.phase = "returned"]
                   ELSE StartGroup(b2, batch.group + 1)
    /\ UNCHANGED <<jobs, issued, task, pc, mm, doc, calls, files, now, alive,
                   lastResp>>

BatchInit ==
    /\ jobs = << >>
    /\ issued = {}
    /\ task = [id \in JobIds |-> NoneD]
    /\ pc = [id \in JobIds |-> "none"]
    /\ mm = [id \in JobIds |-> NoneD]
    /\ doc = [id \in JobIds |-> NoneD]
    /\ calls = [id \in JobIds |-> << >>]
    /\ files = << >>
    /\ now = 0
    /\ alive = TRUE
    /\ lastResp = NoneD
    /\ batch = [phase |-> "idle"]

BatchNext ==
    \/ \E n \in 1..MaxTasks, size \in BatchSizes, available \in BOOLEAN :
          BatchCall(n, size, available)
    \/ WorkerTakes
    \/ \E k \in 1..MaxTasks, outcome \in ProviderAnswers \cup TaskErrors :
          TaskCompletes(k, outcome)
    \/ \E stored \in BOOLEAN : GroupEnd(stored)

BatchSpec == BatchInit /\ [][BatchNext]_vars

-----------------------------------------------------------------------------
(* The adaptive executor                                                     *)

\* a generate_batch call has been made
InBatch == "phase" \in DOMAIN batch /\ batch.phase # "idle"

\* the as_completed loop has just handled a future that raised with 429 in
\* the text of its exception
RateLimited == InBatch /\ batch.last # NoneD /\ batch.last.outcome = "raise_429"

\* C21: during a batch call, whatever successes, rate-limit errors and other
\* errors the tasks have had, current_workers is within
\* [MIN_WORKERS, MAX_WORKERS] = [2, 20].
C21_WorkersInRange ==
    InBatch => batch.current_workers \in MIN_WORKERS..MAX_WORKERS

\* a rate-limit error has brought current_workers down to the floor
C21_Witness == RateLimited /\ batch.current_workers = MIN_WORKERS

\* ceil(x / 2)
HalfUp(x) == (x + 1) \div 2

TaskRaised == InBatch /\ batch.last # NoneD /\ batch.last.outcome \in TaskErrors

\* C23: a task failure is isolated: the task that raised is recorded under its
\* own key as a null result together with its error message, and the mapping
\* that generate_batch returns has exactly one entry for every submitted key
\* (every other task has run and is recorded).
C23_FailureIsolated ==
    /\ TaskRaised =>
          /\ batch.last.task \in DOMAIN batch.batch_results
          /\ LET rec == batch.batch_results[batch.last.task]
             IN /\ rec.image_url = NoneS
                /\ rec.depth_map_url = NoneS
                /\ "error" \in DOMAIN rec
    /\ (InBatch /\ batch.phase = "returned") =>
          DOMAIN batch.results = 1..batch.n

\* a task of the call has been taken by a worker
Attempted == InBatch /\ \E k \in 1..batch.n : batch.st[k] \in {"running", "done"}

\* C24: generate_batch raises only when no task has been attempted: in every
\* execution in which a task has been attempted it does not raise, whatever
\* task errors, rate-limit events or group checkpoint writes occur.
C24_RaisesOnlyBeforeAnyTask ==
    (InBatch /\ batch.phase = "raised") => ~Attempted

\* C25: when the provider is unavailable before any task is attempted, the
\* call makes no provider request and returns for every key the placeholder
\* with null image_url, null depth_map_url and an error.
C25_UnavailableShortCircuits ==
    (InBatch /\ ~batch.available) =>
        /\ batch.requests = 0
        /\ batch.phase = "returned" =>
              \A k \in 1..batch.n :
                 /\ k \in DOMAIN batch.results
                 /\ batch.results[k].image_url = NoneS
                 /\ batch.results[k].depth_map_url = NoneS
                 /\ "error" \in DOMAIN batch.results[k]

-----------------------------------------------------------------------------
(* src/mastermind.py: _parse_input_prompt without a parser LLM.  A prompt is *)
(* the sequence of its words, single spaces between them.                    *)

\* the words of the prompts that are drawn; the empty word stands for a
\* space next to another space or at an end of the prompt
Vocabulary == {"A", "Python", "In", "in", "with", "style", ""}

\* the prompt of src/test_api.py
ExamplePrompt ==
    <<"A", "tutorial", "about", "Python", "programming", "in", "educational",
      "style">>

\* str.lower() on a word
Lower(w) ==
    CASE w = "A" -> "a"
      [] w = "Python" -> "python"
      [] w = "In" -> "in"
      [] OTHER -> w

\* the string of a sequence of words
RECURSIVE Text(_)
Text(ws) ==
    IF Len(ws) = 0 THEN ""
    ELSE IF Len(ws) = 1 THEN ws[1]
    ELSE ws[1] \o " " \o Text(Tail(ws))

\* str.strip(): the spaces at the two ends are taken away
RECURSIVE Strip(_)
Strip(ws) ==
    IF Len(ws) = 0 THEN ws
    ELSE IF ws[1] = "" THEN Strip(Tail(ws))
    ELSE IF ws[Len(ws)] = "" THEN Strip(SubSeq(ws, 1, Len(ws) - 1))
    ELSE ws

\* str.split(" " + sep + " ") from word i on: cur is the part being read, lead
\* tells whether the space before word i is still there to be matched
RECURSIVE SplitFrom(_, _, _, _, _)
SplitFrom(ws, sep, i, cur, lead) ==
    IF i > Len(ws) THEN <<cur>>
    ELSE IF lead /\ ws[i] = sep /\ i < Len(ws)
    THEN <<cur>> \o SplitFrom(ws, sep, i + 1, << >>, FALSE)
    ELSE SplitFrom(ws, sep, i + 1, Append(cur, ws[i]), TRUE)

Split(ws, sep) == SplitFrom(ws, sep, 1, << >>, FALSE)

\* (" " + sep + " ").join(parts)
RECURSIVE Join(_, _)
Join(parts, sep) ==
    IF Len(parts) = 1 THEN parts[1]
    ELSE parts[1] \o <<sep>> \o Join(Tail(parts), sep)

\* the parsers a Mastermind can have: none, or one whose call raises
Parsers == {"none", "raises"}

\* _parse_input_prompt: the basic split, taken when input_parser_llm is None
\* and, with the parts stripped, when the call of the parser raises
BasicSplit(ws, parser) ==
    LET low == [i \in 1..Len(ws) |-> Lower(ws[i])]
        byIn == Split(low, "in")
        byWith == Split(low, "with")
        part(p) == IF parser = "raises" THEN Text(Strip(p)) ELSE Text(p)
    IN IF Len(byIn) > 1
       THEN [topic |-> part(Join(SubSeq(byIn, 1, Len(byIn) - 1), "in")),
             style_directive |-> part(byIn[Len(byIn)])]
       ELSE IF Len(byWith) > 1
       THEN [topic |-> part(Join(SubSeq(byWith, 1, Len(byWith) - 1), "with")),
             style_directive |-> part(byWith[Len(byWith)])]
       ELSE [topic |-> part(ws), style_directive |-> NoneS]

\* generate_video, step 0, of a Mastermind whose parser is absent or raises
ParseInputBasic(id) ==
    /\ alive
    /\ pc[id] = "parse"
    /\ LET s1 == [mm[id] EXCEPT !.input_prompt = task[id]]
           parsed_input == BasicSplit(task[id].words, task[id].parser)
       IN IF parsed_input.topic = ""
          THEN Raise(id, s1, "Failed to extract a topic from the input prompt.")
          ELSE Proceed(id, [s1 EXCEPT !.parsed_topic = parsed_input.topic,
                                      !.parsed_style_directive =
                                          parsed_input.style_directive],
                       "script")
    /\ lastResp' = NoneD
    /\ UNCHANGED <<jobs, issued, task, doc, calls, files, now, alive, batch>>

\* the prompts drawn: every one of up to MaxWords words, and the example
PromptWords == SeqsUpTo(Vocabulary, MaxWords) \cup {ExamplePrompt}

\* one run, about to parse its prompt, of a Mastermind without a parser or
\* with one that raises
ParseInit ==
    /\ \E ws \in PromptWords \ {<< >>}, parser \in Parsers :
          /\ jobs = (1 :> NewJob([words |-> ws], 0))
          /\ task = [id \in JobIds |->
                        IF id = 1 THEN [words |-> ws, parser |-> parser] ELSE NoneD]
    /\ issued = {1}
    /\ pc = [id \in JobIds |-> IF id = 1 THEN "parse" ELSE "none"]
    /\ mm = [id \in JobIds |-> IF id = 1 THEN InitialState(0) ELSE NoneD]
    /\ doc = [id \in JobIds |-> NoneD]
    /\ calls = [id \in JobIds |-> << >>]
    /\ files = << >>
    /\ now = 0
    /\ alive = TRUE
    /\ lastResp = NoneD
    /\ batch = NoneD

ParseNext == ParseInputBasic(1)

ParseSpec == ParseInit /\ [][ParseNext]_vars

\* the run has parsed its prompt with the basic split of a Mastermind that has
\* no parser
Parsed == pc[1] = "script" /\ task[1].parser = "none"

\* C26: without a parser the split of "A tutorial about Python programming in
\* educational style" gives topic "A tutorial about Python programming" and
\* style directive "educational style", and in general the topic is a leading
\* part of the input, unchanged.
C26_TopicUnchanged ==
    Parsed =>
       LET ws == task[1].words
       IN /\ ws = ExamplePrompt =>
                /\ mm[1].parsed_topic = "A tutorial about Python programming"
                /\ mm[1].parsed_style_directive = "educational style"
          /\ \E i \in 0..Len(ws) : mm[1].parsed_topic = Text(SubSeq(ws, 1, i))

-----------------------------------------------------------------------------
(* Jobs side by side                                                         *)

\* run id makes the step of its terminal cleanup
CleanupStep(id) == pc[id] = "cleanup" /\ pc'[id] = "returned"

\* run id has completed with its document stored under json_path
CompletedWithArtifact(id) ==
    /\ mm[id] # NoneD
    /\ mm[id].status = "completed"
    /\ mm[id].json_path \notin {NoneS, ""}

\* C27: with several jobs running, the terminal cleanup of a job deletes files
\* of that job only and never its final artifact, and the artifact of a
\* completed job stays in storage whatever other jobs do.
C27_CleanupOwnFilesOnly ==
    [][/\ \A id \in JobIds :
             CleanupStep(id) =>
                \A f \in DOMAIN files \ DOMAIN files' :
                   /\ f[1] = id
                   /\ f # PathFile(id, mm[id].json_path)
       /\ \A id \in JobIds :
             CompletedWithArtifact(id)' =>
                PathFile(id, mm'[id].json_path) \in DOMAIN files']_vars

-----------------------------------------------------------------------------
(* Rate limits                                                               *)

\* the as_completed loop has just handled the future of a task whose request
\* the provider answered with HTTP 429
Answered429 == InBatch /\ batch.last # NoneD /\ batch.last.outcome = "http_429"

\* C28: when the provider answers a request with HTTP 429 the executor marks
\* the group rate-limited, halves current_workers down to MIN_WORKERS at the
\* least and sleeps for the backoff duration; current_workers does not grow.
C28_RateLimitResponseHandled ==
    [][Answered429' =>
          /\ batch'.rate_limited
          /\ batch'.current_workers = Max(batch.current_workers \div 2, MIN_WORKERS)
          /\ batch'.last.slept > 0
          /\ batch'.current_workers <= batch.current_workers]_vars

-----------------------------------------------------------------------------
(* The status of a run                                                       *)

\* the place of a status in the order of the stages
StatusRank(status) ==
    CASE status = "initialized" -> 0
      [] status = "generating_tts" -> 1
      [] status = "transcribing_audio" -> 2
      [] status = "generating_prompts" -> 3
      [] status = "generating_images" -> 4
      [] status = "completed" -> 5

TerminalStatus == {"completed", "error"}

\* C30: the status of a run follows initialized, generating_tts,
\* transcribing_audio, generating_prompts, generating_images, completed: a
\* step leaves it, moves it to the next status of the order or, from a status
\* that is not terminal, to error; once it is completed or error the state of
\* the run no longer changes and no adapter is called.
C30_StatusOrder ==
    [][/\ (mm[1] = NoneD /\ mm'[1] # NoneD) => mm'[1].status = "initialized"
       /\ (mm[1] # NoneD) =>
             /\ mm'[1] # NoneD
             /\ IF mm[1].status \in TerminalStatus
                THEN mm'[1] = mm[1] /\ calls'[1] = calls[1]
                ELSE \/ mm'[1].status = mm[1].status
                     \/ mm'[1].status = "error"
                     \/ /\ mm'[1].status # "error"
                        /\ StatusRank(mm'[1].status) = StatusRank(mm[1].status) + 1]_vars

\* a run has completed, its status having been that of the image stage
C30_Witness ==
    /\ mm[1] # NoneD
    /\ mm[1].status = "completed"
    /\ mm[1].image_data # NoneD
    /\ pc[1] = "done"

-----------------------------------------------------------------------------
(* The order of the correlation, checked under MergeSpec                     *)

\* the positions of the entries of the results whose key is the bare index i
IndexEntries(od, i) == {n \in 1..Len(od.items) : od.items[n].key = <<i>>}

\* the positions of the entries whose key holds the digest of the text
HashEntries(od, text) ==
    {n \in 1..Len(od.items) :
        Len(od.items[n].key) = 2 /\ od.items[n].key[2] = Normalize(text)}

\* the segment carries the URLs of the entry val; of an entry that is None
\* there is nothing to carry
Carries(segment, val) ==
    IF val = NoneD THEN "image_url" \notin DOMAIN segment
    ELSE /\ "image_url" \in DOMAIN segment
         /\ segment.image_url = val.image_url
         /\ segment.depth_map_url = val.depth_map_url

-----------------------------------------------------------------------------
(* The key of a segment across the stages, checked under RunSpec             *)

\* C32: the key of a segment is the same in every stage of a job: the ordinal
\* in the key under which the image task of the segment is submitted is the id
\* the segment carries in the document, and the hash in the key is the digest
\* of the normalized text the segment has in the document.
C32_SameKeyInEveryStage ==
    \A id \in JobIds :
        Assembled(id) =>
            LET tasks == ImagePrompts(mm[id].prompt_data)
            IN \A n \in 1..Len(doc[id].segments) :
                  n <= Len(tasks) =>
                     /\ tasks[n].key[1] = doc[id].segments[n].id
                     /\ tasks[n].key[2] = Normalize(doc[id].segments[n].text)

-----------------------------------------------------------------------------
(* Ramp and backoff, checked under BatchSpec                                 *)

\* the as_completed loop has just handled a future
Handled == InBatch /\ batch.last # NoneD

\* a group has just been started
GroupStarted ==
    /\ InBatch' /\ batch'.phase = "group"
    /\ batch.phase = "idle" \/ batch'.group # batch.group

\* C33: current_workers grows by exactly 1, up to MAX_WORKERS, after each
\* task that produced an image in a group with no rate-limit signal so far;
\* it does not grow after such a task once the group is marked rate-limited;
\* it never grows after a task that produced no image; and the mark is
\* cleared at the start of every group.
C33_RampRule ==
    [][/\ Handled' =>
             LET outcome == batch'.last.outcome
             IN /\ (outcome = "image" /\ ~batch.rate_limited) =>
                      batch'.current_workers =
                          Min(batch.current_workers + 1, MAX_WORKERS)
                /\ (outcome = "image" /\ batch.rate_limited) =>
                      batch'.current_workers = batch.current_workers
                /\ outcome # "image" =>
                      batch'.current_workers <= batch.current_workers
       /\ GroupStarted => ~batch'.rate_limited]_vars

-----------------------------------------------------------------------------
(* Groups and their checkpoints, checked under BatchSpec                     *)

\* a checkpoint record has just been persisted
CheckpointWritten ==
    /\ InBatch /\ InBatch'
    /\ Len(batch'.checkpoints) = Len(batch.checkpoints) + 1

\* ceil(n / size)
GroupCount(n, size) == (n + size - 1) \div size

\* C35: the groups are processed one at a time and checkpointed in order: the
\* k-th record is written when every task of group k has its outcome and no
\* task of a later group has started; it holds exactly the outcomes of group
\* k, the index k, the number of groups and current_workers as it is then;
\* and a call that has gone through its G groups has persisted G records.
C35_CheckpointPerGroup ==
    [][/\ InBatch' =>
             /\ \A k \in 1..batch'.n :
                   batch'.st[k] \in {"queued", "running"} =>
                       /\ batch'.phase = "group"
                       /\ k > (batch'.group - 1) * batch'.size
                       /\ k <= batch'.group * batch'.size
             /\ batch'.phase = "returned" =>
                   Len(batch'.checkpoints) = GroupCount(batch'.n, batch'.size)
       /\ CheckpointWritten =>
             LET g == Len(batch'.checkpoints)
                 record == batch'.checkpoints[g]
                 members == {k \in 1..batch.n :
                                k > (g - 1) * batch.size /\ k <= g * batch.size}
             IN /\ batch.group = g
                /\ record.batch_number = g
                /\ record.total_batches = GroupCount(batch.n, batch.size)
                /\ record.concurrency = batch.current_workers
                /\ DOMAIN record.results = members
                /\ \A k \in members :
                      /\ batch.st[k] = "done"
                      /\ record.results[k] = batch.batch_results[k]
                /\ \A k \in 1..batch.n :
                      k > g * batch.size => batch.st[k] = "later"]_vars

\* a call of two groups has returned with its two records, the second one
\* written with fewer workers than the first
C35_Witness ==
    /\ InBatch /\ batch.phase = "returned"
    /\ Len(batch.checkpoints) = 2
    /\ batch.checkpoints[2].concurrency < batch.checkpoints[1].concurrency
    /\ DOMAIN batch.checkpoints[2].results # DOMAIN batch.checkpoints[1].results

-----------------------------------------------------------------------------
(* Partial progress, checked under RunSpec                                   *)

\* the document of job id as it is stored
Stored(id) == files[<<id, "video">>]

\* C36: when the script, speech, transcription or prompt stage of a run has
\* completed and the next stage is about to run, the stored document of the
\* job holds the output of the completed stage and a time of update that is
\* not older than the update; this also when the auto-save inside the update
\* method failed.
C36_PartialProgressStored ==
    \A id \in JobIds :
        pc[id] \in {"tts", "transcribe", "prompts", "images"} =>
            /\ <<id, "video">> \in DOMAIN files
            /\ Stored(id).metadata.updated_at >= doc[id].metadata.updated_at
            /\ Stored(id).script.full_text =
                  DictGet(mm[id].script_data, "full_script", "")
            /\ pc[id] \in {"transcribe", "prompts", "images"} =>
                  Stored(id).audio.url = DictGet(mm[id].audio_info, "url", "")
            /\ pc[id] \in {"prompts", "images"} =>
                  /\ Len(Stored(id).segments) = Len(mm[id].transcription.segments)
                  /\ \A n \in 1..Len(Stored(id).segments) :
                        Stored(id).segments[n].text =
                            mm[id].transcription.segments[n].text
            /\ pc[id] = "images" =>
                  \A n \in 1..Len(Stored(id).segments) :
                     /\ "image_prompt" \in DOMAIN Stored(id).segments[n]
                     /\ Stored(id).segments[n].image_prompt =
                            mm[id].prompt_data.segments[n].image_prompt

-----------------------------------------------------------------------------
(* The minimal document, checked under RunSpec                               *)

\* C37: save_minimal does not raise, whatever the disk does: an assembly
\* whose update or save fails still hands over to the cleanup, not to the
\* error handler, with json_path naming the minimal document, which is stored
\* with an empty segment list; the document in memory is the one the update
\* left.
C37_MinimalNeverThrows ==
    [][\A id \in JobIds :
          AssemblyStep(id) =>
              /\ pc'[id] = "cleanup"
              /\ mm'[id].status # "error"
              /\ mm'[id].json_path \in {"video.json", "video_error.json"}
              /\ mm'[id].json_path = "video_error.json" =>
                    /\ <<id, "video_error">> \in DOMAIN files'
                    /\ files'[<<id, "video_error">>].segments = << >>
                    /\ Len(doc'[id].segments) =
                           Len(mm'[id].transcription.segments)]_vars

\* the last place in the prompt where the word sep stands between two spaces,
\* 0 when there is none
LastOccurrence(ws, sep) ==
    LET at == {i \in 2..(Len(ws) - 1) : ws[i] = sep}
    IN IF at = {} THEN 0 ELSE CHOOSE i \in at : \A j \in at : j <= i

\* the parsing of the run has ended, in the script stage or in the handler
ParseDone == pc[1] \in {"script", "returned"}

\* C38: with the parser absent or raising, parsing never fails the job: the
\* run goes on to the script stage with the prompt split at the last " in ",
\* or, when there is none, at the last " with ", the topic being the text
\* before and the style directive the text after; with neither, the whole
\* prompt is the topic and there is no style directive.
C38_BestEffortParse ==
    ParseDone =>
        LET ws == task[1].words
            p == IF LastOccurrence(ws, "in") # 0 THEN LastOccurrence(ws, "in")
                 ELSE LastOccurrence(ws, "with")
        IN /\ pc[1] = "script"
           /\ mm[1].parsed_topic =
                  IF p = 0 THEN Text(ws) ELSE Text(SubSeq(ws, 1, p - 1))
           /\ mm[1].parsed_style_directive =
                  IF p = 0 THEN NoneS ELSE Text(SubSeq(ws, p + 1, Len(ws)))

-----------------------------------------------------------------------------
(* The thread pool: five clients as in test_concurrent_requests.py *)

\* the submits of test_concurrent_requests.py (one per entry of PROMPTS)
PoolJobs == 5
PoolIds == 1..PoolJobs

\* the runs generate_video is executing in a worker of the thread pool
Executing == {k \in DOMAIN pc : pc[k] \in Stages}

\* the runs that wait: the background task has not started, or it has handed
\* generate_video to the thread pool and no worker has taken it
Waiting == {k \in DOMAIN pc : pc[k] \in {"queued", "submitted"}}

PoolInit ==
    /\ jobs = << >>
    /\ issued = {}
    /\ task = [id \in PoolIds |-> NoneD]
    /\ pc = [id \in PoolIds |-> "none"]
    /\ mm = [id \in PoolIds |-> NoneD]
    /\ doc = [id \in PoolIds |-> NoneD]
    /\ calls = [id \in PoolIds |-> << >>]
    /\ files = << >>
    /\ now = 0
    /\ alive = TRUE
    /\ lastResp = NoneD
    /\ batch = NoneD

\* PoolJobs clients submit and poll; each run is the shortest generate_video
\* has (no topic is found, the handler returns the error state), and it holds
\* its worker for as many steps of the others as the interleaving gives it
PoolNext ==
    \/ Submit(MIN_PROMPT_LENGTH)
    \/ \E id \in PoolIds : GetStatus(id)
    \/ \E id \in PoolIds, ctor \in CtorOutcomes : RunStart(id, ctor)
    \/ \E id \in PoolIds : ExecutorStart(id)
    \/ \E id \in PoolIds : ParseInput(id, FALSE)
    \/ \E id \in PoolIds : RunFinish(id)

PoolSpec == PoolInit /\ [][PoolNext]_vars

====
